---------------------------- MODULE Spec2Model ----------------------------
(***************************************************************************)
(* A model of the memory system of RLabs-Inc/memory-ts: the retrieval      *)
(* engine (activation-signal algorithm), the per-project store with its    *)
(* session records, and the per-turn contract of the engine.               *)
(*                                                                         *)
(* Text is modelled as TLA+ strings, character by character: the string    *)
(* operators below do what the JavaScript string methods of the source do. *)
(* Scores are kept in hundredths (0.5 is 50) so that the additive bonuses  *)
(* of the source stay exact integers.                                      *)
(***************************************************************************)
EXTENDS Integers, Sequences, FiniteSets, TLC

(***************************************************************************)
(* JavaScript strings                                                      *)
(***************************************************************************)

\* the value of an optional string field that is absent (undefined)
UNDEF == "<undefined>"

CharAt(s, i) == SubSeq(s, i, i)

UpperAlphabet == "ABCDEFGHIJKLMNOPQRSTUVWXYZ"
LowerAlphabet == "abcdefghijklmnopqrstuvwxyz"
Digits == "0123456789"

IsUpper(c) == \E i \in 1..Len(UpperAlphabet) : CharAt(UpperAlphabet, i) = c
IsLowerOrDigit(c) ==
  \/ \E i \in 1..Len(LowerAlphabet) : CharAt(LowerAlphabet, i) = c
  \/ \E i \in 1..Len(Digits) : CharAt(Digits, i) = c

\* /\s/
IsSpace(c) == c \in {" ", "\t", "\n", "\r"}

LowerChar(c) ==
  IF IsUpper(c)
  THEN CharAt(LowerAlphabet, CHOOSE i \in 1..Len(UpperAlphabet) : CharAt(UpperAlphabet, i) = c)
  ELSE c

RECURSIVE ToLowerCase(_)
\* String.prototype.toLowerCase
ToLowerCase(s) ==
  IF s = "" THEN "" ELSE LowerChar(CharAt(s, 1)) \o ToLowerCase(SubSeq(s, 2, Len(s)))

\* String.prototype.includes: sub occurs in s as a contiguous run of characters
Includes(s, sub) ==
  \E i \in 0..(Len(s) - Len(sub)) : SubSeq(s, i + 1, i + Len(sub)) = sub

RECURSIVE TrimStart(_)
TrimStart(s) ==
  IF s /= "" /\ IsSpace(CharAt(s, 1)) THEN TrimStart(SubSeq(s, 2, Len(s))) ELSE s

RECURSIVE TrimEnd(_)
TrimEnd(s) ==
  IF s /= "" /\ IsSpace(CharAt(s, Len(s))) THEN TrimEnd(SubSeq(s, 1, Len(s) - 1)) ELSE s

\* String.prototype.trim
Trim(s) == TrimEnd(TrimStart(s))

RECURSIVE SplitFrom(_, _)
\* the pieces of s between runs of whitespace, cur being the piece under way
SplitFrom(s, cur) ==
  IF s = "" THEN <<cur>>
  ELSE IF IsSpace(CharAt(s, 1))
       THEN <<cur>> \o SplitFrom(TrimStart(s), "")
       ELSE SplitFrom(SubSeq(s, 2, Len(s)), cur \o CharAt(s, 1))

\* s.split(/\s+/)
SplitWhitespace(s) == SplitFrom(s, "")

RECURSIVE ReplaceNonWord(_)
\* s.replace(/[^a-z0-9\s-]/g, ' ')
ReplaceNonWord(s) ==
  IF s = "" THEN ""
  ELSE LET c == CharAt(s, 1)
       IN (IF IsLowerOrDigit(c) \/ IsSpace(c) \/ c = "-" THEN c ELSE " ")
          \o ReplaceNonWord(SubSeq(s, 2, Len(s)))

\* word.replace(/s$/, '')
StripFinalS(w) ==
  IF w /= "" /\ CharAt(w, Len(w)) = "s" THEN SubSeq(w, 1, Len(w) - 1) ELSE w

\* s.slice(0, n)
SliceTo(s, n) == SubSeq(s, 1, IF Len(s) < n THEN Len(s) ELSE n)

\* an absent or empty string is falsy
Falsy(s) == s \in {UNDEF, ""}

SeqToSet(q) == {q[i] : i \in 1..Len(q)}

(***************************************************************************)
(* Retrieval engine: constants                                             *)
(***************************************************************************)

STOPWORDS ==
  { "the", "is", "are", "was", "were", "to", "a", "an", "and", "or",
    "but", "in", "on", "at", "for", "with", "about", "when", "how",
    "what", "why", "where", "this", "that", "it", "of", "be", "have",
    "do", "does", "did", "will", "would", "could", "should", "can",
    "may", "might", "must", "shall", "has", "had", "been", "being",
    "i", "you", "we", "they", "he", "she", "my", "your", "our",
    "its", "his", "her", "their", "if", "then", "else", "so", "as",
    "from", "by", "into", "through", "during", "before", "after",
    "also", "now", "back", "get", "go", "come", "let", "like", "just",
    "know", "think", "see", "look", "make", "take", "want", "need" }

MIN_ACTIVATION_SIGNALS == 2

\* the vector signal fires at a cosine similarity of 0.40
VECTOR_THRESHOLD_PCT == 40

\* the content signal reads the first 200 characters and needs 3 common words
CONTENT_PREVIEW_LEN == 200
CONTENT_MIN_OVERLAP == 3

\* the type named for a memory without context_type in the global ordering
GLOBAL_TYPE_FALLBACK == "personal"

\* GLOBAL_TYPE_PRIORITY[t] ?? 8
GlobalTypePriority(t) ==
  CASE t = "technical"     -> 1
    [] t = "preference"    -> 2
    [] t = "architectural" -> 3
    [] t = "workflow"      -> 4
    [] t = "decision"      -> 5
    [] t = "breakthrough"  -> 6
    [] t = "philosophy"    -> 7
    [] t = "personal"      -> 8
    [] OTHER               -> 8

(***************************************************************************)
(* Retrieval engine: activation signals                                    *)
(***************************************************************************)

SignificantWord(w) == Len(w) > 2 /\ w \notin STOPWORDS

RECURSIVE SignificantOnly(_)
\* words.filter(w => !STOPWORDS.has(w) && w.length > 2)
SignificantOnly(q) ==
  IF q = <<>> THEN <<>>
  ELSE (IF SignificantWord(Head(q)) THEN <<Head(q)>> ELSE <<>>) \o SignificantOnly(Tail(q))

\* _extractSignificantWords: the set of significant words of a text
ExtractSignificantWords(text) ==
  {w \in SeqToSet(SplitWhitespace(ReplaceNonWord(ToLowerCase(text)))) : SignificantWord(w)}

\* the significant words of one trigger phrase, in order (duplicates kept)
PhraseWords(phrase) ==
  SignificantOnly(SplitWhitespace(ToLowerCase(Trim(phrase))))

\* what one word of a phrase adds to the match count, in tenths (1 or 0.8)
WordMatch10(messageLower, messageWords, word) ==
  IF word \in messageWords \/ Includes(messageLower, word) THEN 10
  ELSE IF \/ StripFinalS(word) \in messageWords
          \/ (word \o "s") \in messageWords
          \/ Includes(messageLower, StripFinalS(word))
          \/ Includes(messageLower, word \o "s")
       THEN 8
       ELSE 0

RECURSIVE SumSeq(_)
SumSeq(q) == IF q = <<>> THEN 0 ELSE Head(q) + SumSeq(Tail(q))

\* the phrase's strength reaches 0.5: matches / |words| >= 0.5
PhraseActivates(messageLower, messageWords, phrase) ==
  LET words == PhraseWords(phrase)
      matches10 == SumSeq([i \in 1..Len(words) |->
                             WordMatch10(messageLower, messageWords, words[i])])
  IN  Len(words) > 0 /\ 2 * matches10 >= 10 * Len(words)

\* _checkTriggerActivation(...).activated: the strongest phrase reaches 0.5
CheckTriggerActivation(messageLower, messageWords, triggerPhrases) ==
  \E i \in 1..Len(triggerPhrases) :
    PhraseActivates(messageLower, messageWords, triggerPhrases[i])

TagMatches(messageLower, messageWords, tag) ==
  LET tagLower == ToLowerCase(Trim(tag))
  IN  tagLower \in messageWords \/ Includes(messageLower, tagLower)

\* _checkTagActivation(...).activated
CheckTagActivation(messageLower, messageWords, tags) ==
  LET matchCount == Cardinality({i \in 1..Len(tags) :
                                   TagMatches(messageLower, messageWords, tags[i])})
      threshold == IF Len(tags) <= 2 THEN 1 ELSE 2
  IN  Len(tags) > 0 /\ matchCount >= threshold

\* _checkDomainActivation
CheckDomainActivation(messageLower, messageWords, domain) ==
  IF Falsy(domain) THEN FALSE
  ELSE LET domainLower == ToLowerCase(Trim(domain))
       IN  domainLower \in messageWords \/ Includes(messageLower, domainLower)

\* _checkFeatureActivation
CheckFeatureActivation(messageLower, messageWords, feature) ==
  IF Falsy(feature) THEN FALSE
  ELSE LET featureLower == ToLowerCase(Trim(feature))
       IN  featureLower \in messageWords \/ Includes(messageLower, featureLower)

\* _checkContentActivation
CheckContentActivation(messageWords, content) ==
  LET contentWords == ExtractSignificantWords(SliceTo(content, CONTENT_PREVIEW_LEN))
  IN  Cardinality(messageWords \cap contentWords) >= CONTENT_MIN_OVERLAP

Dot(a, b) == SumSeq([i \in 1..Len(a) |-> a[i] * b[i]])

\* cosineSimilarity(query, embedding) >= 0.40, on integer vectors; an absent
\* vector (<<>>) or a zero vector gives similarity 0
VectorActivates(vec1, vec2) ==
  /\ vec1 /= <<>> /\ vec2 /= <<>> /\ Len(vec1) = Len(vec2)
  /\ Dot(vec1, vec1) > 0 /\ Dot(vec2, vec2) > 0
  /\ Dot(vec1, vec2) > 0
  /\ 100 * 100 * Dot(vec1, vec2) * Dot(vec1, vec2)
       >= VECTOR_THRESHOLD_PCT * VECTOR_THRESHOLD_PCT * Dot(vec1, vec1) * Dot(vec2, vec2)


(***************************************************************************)
(* Retrieval engine: pre-filter, gate, importance                          *)
(*                                                                         *)
(* A memory is a record with the fields of StoredMemory that retrieval     *)
(* reads.  An absent string is UNDEF, an absent array <<>>, an absent flag *)
(* FALSE, an absent number NoNumber: the source treats each pair alike.    *)
(***************************************************************************)

NoNumber == 0 - 1

\* memory.scope === 'global' || memory.project_id === 'global'
IsGlobal(memory) == memory.scope = "global" \/ memory.project_id = "global"

\* a variant of AntiTriggered that compares the anti-trigger as written
AntiTriggeredCaseSensitive(memory, messageLower) ==
  \E i \in 1..Len(memory.anti_triggers) :
    Includes(messageLower, memory.anti_triggers[i])

\* one of the anti-triggers occurs in the lowercased message
AntiTriggered(memory, messageLower) ==
  \E i \in 1..Len(memory.anti_triggers) :
    Includes(messageLower, ToLowerCase(memory.anti_triggers[i]))

\* the predicate of _preFilter: TRUE when the memory stays a candidate
PassesPreFilter(memory, currentProjectId, messageLower) ==
  /\ ~(~Falsy(memory.status) /\ memory.status /= "active")
  /\ ~memory.exclude_from_retrieval
  /\ Falsy(memory.superseded_by)
  /\ ~(~IsGlobal(memory) /\ memory.project_id /= currentProjectId)
  /\ ~AntiTriggered(memory, messageLower)

\* the six activation signals of a memory for a message, as booleans
Signals(memory, messageLower, messageWords, queryEmbedding) ==
  [ trigger |-> CheckTriggerActivation(messageLower, messageWords, memory.trigger_phrases),
    tags    |-> CheckTagActivation(messageLower, messageWords, memory.semantic_tags),
    domain  |-> CheckDomainActivation(messageLower, messageWords, memory.domain),
    feature |-> CheckFeatureActivation(messageLower, messageWords, memory.feature),
    content |-> CheckContentActivation(messageWords, memory.content),
    vector  |-> VectorActivates(queryEmbedding, memory.embedding) ]

B2N(b) == IF b THEN 1 ELSE 0

\* signalCount
SignalCount(sig) ==
  B2N(sig.trigger) + B2N(sig.tags) + B2N(sig.domain)
    + B2N(sig.feature) + B2N(sig.content) + B2N(sig.vector)

\* contextKeywords[contextType] ?? []
ContextKeywords(contextType) ==
  CASE contextType = "debugging"     -> {"debug", "bug", "error", "fix", "issue", "problem", "broken"}
    [] contextType = "decision"      -> {"decide", "decision", "choose", "choice", "option", "should"}
    [] contextType = "architectural" -> {"architect", "design", "structure", "pattern", "how"}
    [] contextType = "breakthrough"  -> {"insight", "realize", "understand", "discover", "why"}
    [] contextType = "technical"     -> {"implement", "code", "function", "method", "api"}
    [] contextType = "workflow"      -> {"process", "workflow", "step", "flow", "pipeline"}
    [] contextType = "philosophy"    -> {"philosophy", "principle", "belief", "approach", "think"}
    [] OTHER                         -> {}

ProblemWords ==
  {"error", "bug", "issue", "problem", "wrong", "fail", "broken", "help", "stuck"}

\* emotionalKeywords[emotion] ?? []
EmotionalKeywords(emotion) ==
  CASE emotion = "frustration"  -> {"frustrated", "annoying", "stuck", "ugh", "damn", "hate"}
    [] emotion = "excitement"   -> {"excited", "awesome", "amazing", "love", "great", "wow"}
    [] emotion = "curiosity"    -> {"wonder", "curious", "interesting", "how", "why", "what if"}
    [] emotion = "satisfaction" -> {"done", "finished", "complete", "works", "solved", "finally"}
    [] emotion = "discovery"    -> {"found", "realized", "understand", "insight", "breakthrough"}
    [] OTHER                    -> {}

\* some keyword is a word of the message or occurs in it
AnyKeyword(kws, messageLower, messageWords) ==
  \E kw \in kws : kw \in messageWords \/ Includes(messageLower, kw)

OrDefault(n, d) == IF n = NoNumber THEN d ELSE n

\* _calculateImportanceScore, in hundredths
CalculateImportanceScore(memory, signalCount, messageLower, messageWords) ==
  LET contextType == IF memory.context_type = UNDEF THEN ""
                     ELSE ToLowerCase(memory.context_type)
      emotion == IF memory.emotional_resonance = UNDEF THEN ""
                 ELSE ToLowerCase(memory.emotional_resonance)
      temporalClass == IF memory.temporal_class = UNDEF THEN "medium_term"
                       ELSE memory.temporal_class
  IN  OrDefault(memory.importance_weight, 50)
      + (IF signalCount >= 4 THEN 20 ELSE IF signalCount >= 3 THEN 10 ELSE 0)
      + (IF memory.awaiting_implementation THEN 15 ELSE 0)
      + (IF memory.awaiting_decision THEN 10 ELSE 0)
      + (IF AnyKeyword(ContextKeywords(contextType), messageLower, messageWords)
         THEN 10 ELSE 0)
      + (IF memory.problem_solution_pair
            /\ AnyKeyword(ProblemWords, messageLower, messageWords)
         THEN 10 ELSE 0)
      + (CASE temporalClass = "eternal"   -> 10
           [] temporalClass = "long_term" -> 5
           [] temporalClass = "ephemeral" ->
                (IF OrDefault(memory.sessions_since_surfaced, 0) <= 1 THEN 10 ELSE 0)
           [] OTHER -> 0)
      - (IF OrDefault(memory.confidence_score, 70) < 50 THEN 10 ELSE 0)
      + (IF AnyKeyword(EmotionalKeywords(emotion), messageLower, messageWords)
         THEN 5 ELSE 0)

(***************************************************************************)
(* Retrieval engine: the memories and messages of the model                *)
(***************************************************************************)

CurrentProject == "proj"
OtherProject == "other"

\* a v2 memory of the current project with no retrieval metadata
BaseMemory ==
  [ id |-> "", status |-> "active", exclude_from_retrieval |-> FALSE,
    superseded_by |-> UNDEF, scope |-> "project", project_id |-> CurrentProject,
    anti_triggers |-> <<>>, trigger_phrases |-> <<>>, semantic_tags |-> <<>>,
    domain |-> UNDEF, feature |-> UNDEF, content |-> "", embedding |-> <<>>,
    importance_weight |-> 50, confidence_score |-> 70,
    awaiting_implementation |-> FALSE, awaiting_decision |-> FALSE,
    context_type |-> "technical", problem_solution_pair |-> FALSE,
    temporal_class |-> UNDEF, sessions_since_surfaced |-> NoNumber,
    emotional_resonance |-> UNDEF, action_required |-> FALSE, related_to |-> <<>> ]

\* retrieval metadata: every text signal and the vector signal fire for the
\* message "Fix the Auth token bug!" with the embedding <<1, 0>>
SixText ==
  [ trigger_phrases |-> <<"Auth tokens">>, semantic_tags |-> <<"auth", "bug", "cache">>,
    domain |-> "Auth", feature |-> "token", content |-> "Auth token bug in the login flow",
    embedding |-> <<1, 2>> ]

\* the domain and the vector signal only
TwoText == [ domain |-> "auth", embedding |-> <<1, 2>> ]

\* the domain signal only: the embedding stays under the threshold
OneText == [ domain |-> "auth", embedding |-> <<2, 5>> ]

AntiText == [ anti_triggers |-> <<"deploy", "TOKEN bug">> ]

GlobalScope == [ scope |-> "global", project_id |-> "global" ]

\* the memories the selection phases are exercised on (id and related_to are
\* set per corpus): all of them pass the pre-filter
SelectionShapes ==
  { SixText @@ BaseMemory,
    SixText @@ GlobalScope @@ [context_type |-> "personal"] @@ BaseMemory,
    TwoText @@ GlobalScope @@ BaseMemory,
    TwoText @@ [action_required |-> TRUE] @@ BaseMemory,
    TwoText @@ [importance_weight |-> 90, context_type |-> "decision"] @@ BaseMemory,
    OneText @@ BaseMemory,
    OneText @@ GlobalScope @@ BaseMemory }

\* the memories the pre-filter is exercised on: two that pass it, and one for
\* each field it reads.  The last but one is a record stored before the v2
\* fields existed; the last is a memory of the global database whose scope
\* the migration filled in from its context type.
PreFilterShapes ==
  { SixText @@ BaseMemory,
    TwoText @@ GlobalScope @@ BaseMemory,
    AntiText @@ SixText @@ BaseMemory,
    AntiText @@ SixText @@ GlobalScope @@ BaseMemory,
    SixText @@ [project_id |-> OtherProject] @@ BaseMemory,
    SixText @@ [status |-> "archived"] @@ BaseMemory,
    SixText @@ [status |-> "pending"] @@ GlobalScope @@ BaseMemory,
    SixText @@ [exclude_from_retrieval |-> TRUE] @@ BaseMemory,
    SixText @@ [superseded_by |-> "m0"] @@ BaseMemory,
    SixText @@ [status |-> UNDEF, scope |-> UNDEF] @@ BaseMemory,
    SixText @@ [project_id |-> "global"] @@ BaseMemory }

\* the memories the rankings are exercised on: all have the domain and the
\* vector signal, and differ in scope, context_type and emotional_resonance
RankingShapes ==
  { TwoText @@ BaseMemory,
    TwoText @@ [emotional_resonance |-> "curiosity"] @@ BaseMemory,
    TwoText @@ [context_type |-> "debug"] @@ BaseMemory,
    TwoText @@ GlobalScope @@ BaseMemory,
    TwoText @@ [context_type |-> "architecture"] @@ GlobalScope @@ BaseMemory,
    TwoText @@ [context_type |-> "decision"] @@ GlobalScope @@ BaseMemory }

Shapes == SelectionShapes \cup PreFilterShapes \cup RankingShapes

\* a message with the embedding the embedder gave it (<<>>: none)
Messages ==
  { [message |-> "Fix the Auth token bug!", embedding |-> <<1, 0>>],
    [message |-> "token auth", embedding |-> <<>>],
    [message |-> "How should we deploy?", embedding |-> <<0, 1>>] }


\* the messages the rankings are exercised on: the first has keywords of the
\* debug type, the second of the architecture and decision types and of the
\* curiosity emotion
RankingMessages ==
  { [message |-> "Fix the Auth token bug!", embedding |-> <<1, 0>>],
    [message |-> "How should the auth token design work?", embedding |-> <<1, 0>>] }

\* the texts the tables below are computed for
KnownMessages == {m.message : m \in Messages \cup RankingMessages}
KnownLower == {ToLowerCase(t) : t \in KnownMessages}
KnownProjects == {CurrentProject, OtherProject}

\* a memory without the two fields a corpus sets
Strip(memory) == [memory EXCEPT !.id = "", !.related_to = <<>>]

(***************************************************************************)
(* Tables of the text computations over the shapes and messages above.     *)
(* Each holds the values of the operator it names, computed once; an       *)
(* argument outside a table is computed directly.                          *)
(***************************************************************************)

LowerTable == [t \in KnownMessages |-> ToLowerCase(t)]
WordsTable == [t \in KnownMessages |-> ExtractSignificantWords(t)]
WordsOfLower == [ml \in KnownLower |-> ExtractSignificantWords(ml)]

PreFilterTable ==
  [sh \in Shapes, p \in KnownProjects, ml \in KnownLower |-> PassesPreFilter(sh, p, ml)]

TextSignalsTable ==
  [sh \in Shapes, ml \in KnownLower |-> Signals(sh, ml, WordsOfLower[ml], <<>>)]

ImportanceTable ==
  [sh \in Shapes, n \in 0..6, ml \in KnownLower |->
     CalculateImportanceScore(sh, n, ml, WordsOfLower[ml])]

ToLowerCaseMemo(t) == IF t \in KnownMessages THEN LowerTable[t] ELSE ToLowerCase(t)

ExtractSignificantWordsMemo(t) ==
  IF t \in KnownMessages THEN WordsTable[t] ELSE ExtractSignificantWords(t)

Tabulated(memory, messageLower, messageWords) ==
  /\ Strip(memory) \in Shapes
  /\ messageLower \in KnownLower
  /\ messageWords = WordsOfLower[messageLower]

PassesPreFilterMemo(memory, currentProjectId, messageLower) ==
  IF Strip(memory) \in Shapes /\ currentProjectId \in KnownProjects /\ messageLower \in KnownLower
  THEN PreFilterTable[Strip(memory), currentProjectId, messageLower]
  ELSE PassesPreFilter(memory, currentProjectId, messageLower)

SignalsMemo(memory, messageLower, messageWords, queryEmbedding) ==
  IF Tabulated(memory, messageLower, messageWords)
  THEN [TextSignalsTable[Strip(memory), messageLower]
          EXCEPT !.vector = VectorActivates(queryEmbedding, memory.embedding)]
  ELSE Signals(memory, messageLower, messageWords, queryEmbedding)

CalculateImportanceScoreMemo(memory, signalCount, messageLower, messageWords) ==
  IF Tabulated(memory, messageLower, messageWords) /\ signalCount \in 0..6
  THEN ImportanceTable[Strip(memory), signalCount, messageLower]
  ELSE CalculateImportanceScore(memory, signalCount, messageLower, messageWords)

\* the ActivatedMemory built for a candidate
Activate(memory, messageLower, messageWords, queryEmbedding) ==
  LET sig == SignalsMemo(memory, messageLower, messageWords, queryEmbedding)
  IN  [ memory          |-> memory,
        signals         |-> sig,
        count           |-> SignalCount(sig),
        importanceScore |-> CalculateImportanceScoreMemo(memory, SignalCount(sig),
                                                         messageLower, messageWords),
        isGlobal        |-> IsGlobal(memory) ]

(***************************************************************************)
(* Retrieval engine: ordering and selection                                *)
(***************************************************************************)

\* phase 2: signal count descending, then importance descending
RelevanceBefore(a, b) ==
  IF b.count /= a.count THEN b.count < a.count
  ELSE b.importanceScore < a.importanceScore

TypePriorityOf(a) ==
  GlobalTypePriority(IF a.memory.context_type = UNDEF THEN GLOBAL_TYPE_FALLBACK
                     ELSE a.memory.context_type)

\* globalsSorted: type priority ascending, then signals, then importance
GlobalBefore(a, b) ==
  IF TypePriorityOf(a) /= TypePriorityOf(b) THEN TypePriorityOf(a) < TypePriorityOf(b)
  ELSE IF b.count /= a.count THEN b.count < a.count
  ELSE b.importanceScore < a.importanceScore

\* a variant of ProjectBefore that does not read action_required
ProjectBeforeNoAction(a, b) ==
  IF b.count /= a.count THEN b.count < a.count
  ELSE b.importanceScore < a.importanceScore

\* projectsSorted: action_required first, then signals, then importance
ProjectBefore(a, b) ==
  IF B2N(b.memory.action_required) /= B2N(a.memory.action_required)
  THEN B2N(b.memory.action_required) < B2N(a.memory.action_required)
  ELSE IF b.count /= a.count THEN b.count < a.count
  ELSE b.importanceScore < a.importanceScore

\* compare(a, b) < 0 for the comparator of the named sort
\* (a, b) => b.created - a.created, negative: the later record first
CreatedBefore(a, b) == b.created - a.created < 0

Before(order, a, b) ==
  CASE order = "relevance" -> RelevanceBefore(a, b)
    [] order = "global"    -> GlobalBefore(a, b)
    [] order = "project"   -> ProjectBefore(a, b)
    [] order = "created"   -> CreatedBefore(a, b)

\* Array.prototype.sort with the named comparator: a stable sort
SortedBy(q, order) ==
  LET pos(i) == 1 + Cardinality({j \in 1..Len(q) :
                       \/ Before(order, q[j], q[i])
                       \/ (j < i /\ ~Before(order, q[i], q[j]))})
  IN  [k \in 1..Len(q) |-> q[CHOOSE i \in 1..Len(q) : pos(i) = k]]

SelectedIds(selected) == {selected[i].memory.id : i \in 1..Len(selected)}

RECURSIVE PreFilterSeq(_, _, _)
\* _preFilter: the candidates, in corpus order
PreFilterSeq(memories, currentProjectId, messageLower) ==
  IF memories = <<>> THEN <<>>
  ELSE (IF PassesPreFilterMemo(Head(memories), currentProjectId, messageLower)
        THEN <<Head(memories)>> ELSE <<>>)
       \o PreFilterSeq(Tail(memories), currentProjectId, messageLower)

\* a variant of BelowGate that lets a single signal through
BelowGateOneSignal(signalCount) == signalCount < 1

\* the relevance gate: TRUE when the candidate is rejected
BelowGate(signalCount) == signalCount < MIN_ACTIVATION_SIGNALS

RECURSIVE GateSeq(_, _, _, _)
\* phase 1: the candidates with at least MIN_ACTIVATION_SIGNALS signals
GateSeq(candidates, messageLower, messageWords, queryEmbedding) ==
  IF candidates = <<>> THEN <<>>
  ELSE LET a == Activate(Head(candidates), messageLower, messageWords, queryEmbedding)
       IN (IF BelowGate(a.count) THEN <<>> ELSE <<a>>)
          \o GateSeq(Tail(candidates), messageLower, messageWords, queryEmbedding)

RECURSIVE KeepGlobal(_, _)
\* activatedMemories.filter(m => m.isGlobal) and its complement
KeepGlobal(activated, wanted) ==
  IF activated = <<>> THEN <<>>
  ELSE (IF Head(activated).isGlobal = wanted THEN <<Head(activated)>> ELSE <<>>)
       \o KeepGlobal(Tail(activated), wanted)

\* a variant of TakeFirst that stops one element early
TakeFirstShort(q, n) == SubSeq(q, 1, IF Len(q) < n - 1 THEN Len(q) ELSE n - 1)

\* Array.prototype.slice(0, n) for n >= 0
TakeFirst(q, n) == SubSeq(q, 1, IF Len(q) < n THEN Len(q) ELSE n)

RECURSIVE PushUnselected(_, _)
\* the global loop: push every item whose id is not selected yet
PushUnselected(items, selected) ==
  IF items = <<>> THEN selected
  ELSE PushUnselected(Tail(items),
         IF Head(items).memory.id \in SelectedIds(selected) THEN selected
         ELSE Append(selected, Head(items)))

\* the global loop runs over globalsSorted.slice(0, maxGlobalMemories)
SelectGlobals(globalsSorted, maxGlobalMemories) ==
  PushUnselected(TakeFirst(globalsSorted, maxGlobalMemories), <<>>)

RECURSIVE SelectProjectsShort(_, _, _)
\* a variant of SelectProjects that stops one memory early
SelectProjectsShort(projectsSorted, selected, maxMemories) ==
  IF projectsSorted = <<>> \/ Len(selected) >= maxMemories - 1 THEN selected
  ELSE SelectProjectsShort(Tail(projectsSorted),
         IF Head(projectsSorted).memory.id \in SelectedIds(selected) THEN selected
         ELSE Append(selected, Head(projectsSorted)),
         maxMemories)

RECURSIVE SelectProjects(_, _, _)
\* the project loop: stops once maxMemories are selected
SelectProjects(projectsSorted, selected, maxMemories) ==
  IF projectsSorted = <<>> \/ Len(selected) >= maxMemories THEN selected
  ELSE SelectProjects(Tail(projectsSorted),
         IF Head(projectsSorted).memory.id \in SelectedIds(selected) THEN selected
         ELSE Append(selected, Head(projectsSorted)),
         maxMemories)

\* the ids the selected memories relate to and that are not selected
RelatedIds(selected) ==
  UNION {SeqToSet(selected[i].memory.related_to) : i \in 1..Len(selected)}
    \ SelectedIds(selected)

RECURSIVE PushRelated(_, _, _, _)
\* the backfill loop over the activated memories, in phase-2 order
PushRelated(activated, relatedIds, selected, maxMemories) ==
  IF activated = <<>> \/ Len(selected) >= maxMemories THEN selected
  ELSE PushRelated(Tail(activated), relatedIds,
         IF /\ Head(activated).memory.id \notin SelectedIds(selected)
            /\ Head(activated).memory.id \in relatedIds
         THEN Append(selected, Head(activated)) ELSE selected,
         maxMemories)

\* phase 4: related memories, if space remains
Backfill(activated, selected, maxMemories) ==
  IF Len(selected) < maxMemories
  THEN PushRelated(activated, RelatedIds(selected), selected, maxMemories)
  ELSE selected

\* the activated memories of a retrieval, in phase-2 order
ActivatedMemories(allMemories, currentMessage, queryEmbedding, projectId) ==
  LET messageLower == ToLowerCaseMemo(currentMessage)
      messageWords == ExtractSignificantWordsMemo(currentMessage)
      candidates   == PreFilterSeq(allMemories, projectId, messageLower)
  IN  SortedBy(GateSeq(candidates, messageLower, messageWords, queryEmbedding),
               "relevance")

\* the selection after the global loop
AfterGlobals(activated, maxGlobalMemories) ==
  SelectGlobals(SortedBy(KeepGlobal(activated, TRUE), "global"), maxGlobalMemories)

\* the selection after the project loop
AfterProjects(activated, maxMemories, maxGlobalMemories) ==
  SelectProjects(SortedBy(KeepGlobal(activated, FALSE), "project"),
                 AfterGlobals(activated, maxGlobalMemories), maxMemories)

\* retrieveRelevantMemories: the selected memories, in the order returned
RetrieveRelevantMemories(allMemories, currentMessage, queryEmbedding, projectId, maxMemories, maxGlobalMemories) ==
  LET activated == ActivatedMemories(allMemories, currentMessage, queryEmbedding, projectId)
  IN  Backfill(activated, AfterProjects(activated, maxMemories, maxGlobalMemories),
               maxMemories)


(***************************************************************************)
(* State                                                                   *)
(***************************************************************************)

VARIABLES
  corpus,      \* the memories: allMemories of a retrieval, the stored ones of an engine
  query,       \* the message, its embedding, the session's project and the limits
  retrieved,   \* [done, out]: out is what retrieveRelevantMemories returned
  projects,    \* MemoryStore._projects: project id -> the cached ProjectDB (0: none)
  instances,   \* the ProjectDB objects created so far: instance i serves instances[i]
  calls,       \* the getProject calls in flight, one slot per caller
  received,    \* project id -> the ProjectDB objects getProject has returned for it
  sessions,    \* the sessions collections: <<project, session>> -> the record
  clock,       \* what Date.now() returns
  sessionLog,  \* <<project, session>> -> the calls completed on the pair
  lastReturn,  \* what the last store or engine call returned
  injected,    \* the engine's injected ids: <<project, session>> -> set of memory ids
  summaries,   \* the summaries collections: project id -> the records, as inserted
  snapshots,   \* the snapshots collections: project id -> the records, as inserted
  files,       \* a directory of memory files: file name -> content
  migrationLog,\* the migration runs made on the directory
  document,    \* a file's content handed to a pure function, and what was made of it
  managedMemories, \* the memories the lifecycle manager maintains: id -> record
  managerPass  \* whether a management pass is under way

retrievalVars == <<corpus, query, retrieved>>
projectVars == <<projects, instances, calls, received>>
sessionVars == <<sessions, clock, sessionLog, lastReturn>>

recordVars == <<summaries, snapshots>>
migrationVars == <<files, migrationLog, document>>
lifecycleVars == <<managedMemories, managerPass>>
restVars == <<recordVars, migrationVars, lifecycleVars>>

vars == <<corpus, query, retrieved, projects, instances, calls, received,
          sessions, clock, sessionLog, lastReturn, injected,
          summaries, snapshots, files, migrationLog, document, managedMemories, managerPass>>

(***************************************************************************)
(* Retrieval: the inputs                                                   *)
(***************************************************************************)

\* the largest corpus, and the largest value of either limit
MaxCorpus == 2
MaxLimit == 2

MemoryId(i) == "m" \o CharAt(Digits, i + 1)

\* the ids of the other memories of a corpus of n memories, in order
OtherIds(i, n) ==
  LET others == [k \in 1..(n - 1) |-> IF k < i THEN k ELSE k + 1]
  IN  [k \in 1..(n - 1) |-> MemoryId(others[k])]

\* the corpus of the given shapes; memory i relates to all others when linked[i]
MakeCorpus(shapes, linked) ==
  [i \in 1..Len(shapes) |->
     [shapes[i] EXCEPT !.id = MemoryId(i),
                       !.related_to = IF linked[i] THEN OtherIds(i, Len(shapes)) ELSE <<>>]]

Queries ==
  { [message |-> m.message, embedding |-> m.embedding, project_id |-> CurrentProject,
     maxMemories |-> mt, maxGlobalMemories |-> mg] :
      m \in Messages, mt \in 0..MaxLimit, mg \in 0..MaxLimit }

\* the pre-filter does not read the limits: one value for both
PreFilterQueries == {q \in Queries : q.maxMemories = q.maxGlobalMemories}

NotRetrieved == [done |-> FALSE, out |-> <<>>]

(***************************************************************************)
(* Store and engine: the values before anything is opened                  *)
(***************************************************************************)

\* the callers that may be inside getProject at once
MaxCallers == 2
Callers == 1..MaxCallers

ProjectIds == {CurrentProject, OtherProject}
SessionIds == {"s1", "s2"}
Pairs == ProjectIds \X SessionIds

NoProjectDB == 0
IdleCall == [pc |-> "idle", projectId |-> "", db |-> NoProjectDB]
NoSession == [present |-> FALSE, message_count |-> 0,
              first_session_completed |-> FALSE, last_active |-> 0]
NoReturn == [op |-> "none"]

StoreClosed ==
  /\ projects = [p \in ProjectIds |-> NoProjectDB]
  /\ instances = <<>>
  /\ calls = [c \in Callers |-> IdleCall]
  /\ received = [p \in ProjectIds |-> {}]

NoSessions ==
  /\ sessions = [pair \in Pairs |-> NoSession]
  /\ clock = 1
  /\ sessionLog = [pair \in Pairs |-> [gets |-> 0, increments |-> 0]]
  /\ lastReturn = NoReturn

NoRecords ==
  /\ summaries = [p \in ProjectIds |-> <<>>]
  /\ snapshots = [p \in ProjectIds |-> <<>>]

NoMigration ==
  /\ files = <<>>
  /\ migrationLog = [runs |-> 0]
  /\ document = [op |-> "none"]

NoLifecycle == managedMemories = <<>> /\ managerPass = "idle"

NoRetrieval ==
  /\ query = [maxMemories |-> 0, maxGlobalMemories |-> 0]
  /\ retrieved = NotRetrieved

(***************************************************************************)
(* Retrieval: the specifications                                           *)
(***************************************************************************)

\* a corpus of memories that all reach the selection phases
InitRetrieval ==
  /\ \E n \in 0..MaxCorpus :
       \E shapes \in [1..n -> SelectionShapes], linked \in [1..n -> BOOLEAN] :
         corpus = MakeCorpus(shapes, linked)
  /\ query \in Queries
  /\ retrieved = NotRetrieved
  /\ StoreClosed /\ NoSessions
  /\ injected = [pair \in Pairs |-> {}]
  /\ NoRecords /\ NoMigration /\ NoLifecycle

\* a corpus of memories the pre-filter tells apart
InitPreFilter ==
  /\ \E n \in 0..MaxCorpus :
       \E shapes \in [1..n -> PreFilterShapes], linked \in [1..n -> BOOLEAN] :
         corpus = MakeCorpus(shapes, linked)
  /\ query \in PreFilterQueries
  /\ retrieved = NotRetrieved
  /\ StoreClosed /\ NoSessions
  /\ injected = [pair \in Pairs |-> {}]
  /\ NoRecords /\ NoMigration /\ NoLifecycle

\* one call of retrieveRelevantMemories on the inputs drawn
Retrieve ==
  /\ ~retrieved.done
  /\ retrieved' = [done |-> TRUE,
                   out  |-> RetrieveRelevantMemories(corpus, query.message, query.embedding,
                              query.project_id, query.maxMemories, query.maxGlobalMemories)]
  /\ UNCHANGED <<corpus, query, projectVars, sessionVars, injected, restVars>>

NextRetrieval == Retrieve

SpecRetrieval == InitRetrieval /\ [][NextRetrieval]_vars

SpecPreFilter == InitPreFilter /\ [][NextRetrieval]_vars

(***************************************************************************)
(* Retrieval: the properties                                               *)
(***************************************************************************)

\* C1: the output of a retrieval never holds more than max_total memories,
\* whatever the two limits are.
C1_OutputWithinMaxTotal ==
  retrieved.done => Len(retrieved.out) <= query.maxMemories

\* C2: the output of a retrieval never holds more than max_global global
\* memories, the ones the related_to backfill adds included.
C2_GlobalsWithinMaxGlobal ==
  retrieved.done =>
    Cardinality({i \in 1..Len(retrieved.out) : IsGlobal(retrieved.out[i].memory)})
      <= query.maxGlobalMemories

\* C3: every returned memory has at least two of the six activation signals
\* (trigger, tags, domain, feature, content, vector) for the message.
C3_ReturnedHaveTwoSignals ==
  retrieved.done =>
    \A i \in 1..Len(retrieved.out) :
      SignalCount(SignalsMemo(retrieved.out[i].memory, ToLowerCaseMemo(query.message),
                              ExtractSignificantWordsMemo(query.message),
                              query.embedding)) >= 2

\* a memory with exactly two signals is returned while one with a single
\* signal is left out although the output has room for it
C3_Witness ==
  LET lower == ToLowerCaseMemo(query.message)
      words == ExtractSignificantWordsMemo(query.message)
      count(m) == SignalCount(SignalsMemo(m, lower, words, query.embedding))
  IN  /\ retrieved.done
      /\ Len(retrieved.out) < query.maxMemories
      /\ \E i \in 1..Len(retrieved.out) : count(retrieved.out[i].memory) = 2
      /\ \E i \in 1..Len(corpus) :
           /\ count(corpus[i]) = 1
           /\ corpus[i].id \notin SelectedIds(retrieved.out)

\* C7: a memory with all six signals that passes the pre-filter is left out
\* only when the output holds max_total memories or, for a global memory,
\* max_global global memories.
C7_SixSignalsAbsentOnlyAtCap ==
  LET lower == ToLowerCaseMemo(query.message)
      words == ExtractSignificantWordsMemo(query.message)
      globals == {i \in 1..Len(retrieved.out) : IsGlobal(retrieved.out[i].memory)}
  IN  retrieved.done =>
        \A i \in 1..Len(corpus) :
          ( /\ PassesPreFilterMemo(corpus[i], query.project_id, lower)
            /\ SignalCount(SignalsMemo(corpus[i], lower, words, query.embedding)) = 6
            /\ corpus[i].id \notin SelectedIds(retrieved.out) )
          => \/ Len(retrieved.out) >= query.maxMemories
             \/ /\ IsGlobal(corpus[i])
                /\ Cardinality(globals) >= query.maxGlobalMemories

\* both limits are positive, a memory is returned, and a memory with six
\* signals is left out
C7_Witness ==
  LET lower == ToLowerCaseMemo(query.message)
      words == ExtractSignificantWordsMemo(query.message)
  IN  /\ retrieved.done
      /\ query.maxMemories >= 1 /\ query.maxGlobalMemories >= 1
      /\ Len(retrieved.out) >= 1
      /\ \E i \in 1..Len(corpus) :
           /\ PassesPreFilterMemo(corpus[i], query.project_id, lower)
           /\ SignalCount(SignalsMemo(corpus[i], lower, words, query.embedding)) = 6
           /\ corpus[i].id \notin SelectedIds(retrieved.out)

\* C4: every returned memory passes the pre-filter: it is active, not
\* excluded from retrieval, not superseded, and when its scope is project its
\* project_id is the session's.  A record without a status counts as active.
C4_ReturnedPassPreFilter ==
  retrieved.done =>
    \A i \in 1..Len(retrieved.out) :
      LET memory == retrieved.out[i].memory
      IN  /\ memory.status \in {"active", UNDEF}
          /\ ~memory.exclude_from_retrieval
          /\ memory.superseded_by = UNDEF
          /\ memory.scope = "project" => memory.project_id = query.project_id

\* C5: a memory one of whose anti-triggers occurs in the message, compared
\* without regard to case, is never returned.
C5_AntiTriggeredNeverReturned ==
  retrieved.done =>
    \A i \in 1..Len(retrieved.out) :
      \A k \in 1..Len(retrieved.out[i].memory.anti_triggers) :
        ~Includes(ToLowerCaseMemo(query.message),
                  ToLowerCase(retrieved.out[i].memory.anti_triggers[k]))

\* a memory is returned, the output has room, and a memory is left out whose
\* anti-trigger occurs in the message only when case is disregarded
C5_Witness ==
  /\ retrieved.done
  /\ 1 <= Len(retrieved.out) /\ Len(retrieved.out) < query.maxMemories
  /\ \E i \in 1..Len(corpus) :
       /\ corpus[i].id \notin SelectedIds(retrieved.out)
       /\ \E k \in 1..Len(corpus[i].anti_triggers) :
            /\ Includes(ToLowerCaseMemo(query.message),
                        ToLowerCase(corpus[i].anti_triggers[k]))
            /\ ~Includes(ToLowerCaseMemo(query.message), corpus[i].anti_triggers[k])

(***************************************************************************)
(* Store: getProject, with callers that interleave at its await            *)
(***************************************************************************)

\* the ProjectDB objects created for a project
InstancesOf(projectId) == {i \in 1..Len(instances) : instances[i] = projectId}

\* getProject up to its first suspension.  A cached project is returned at
\* once; otherwise the database and its collections are created and the
\* caller waits for the four loads.
GetProjectBegin(c, projectId) ==
  /\ calls[c].pc = "idle"
  /\ IF projects[projectId] /= NoProjectDB
     THEN /\ received' = [received EXCEPT ![projectId] = @ \cup {projects[projectId]}]
          /\ UNCHANGED <<projects, instances, calls>>
     ELSE /\ instances' = Append(instances, projectId)
          /\ calls' = [calls EXCEPT ![c] = [pc |-> "loading", projectId |-> projectId,
                                            db |-> Len(instances) + 1]]
          /\ UNCHANGED <<projects, received>>
  /\ UNCHANGED <<retrievalVars, sessionVars, injected, restVars>>

\* getProject after the loads: the caller caches its ProjectDB and returns it
GetProjectFinish(c) ==
  /\ calls[c].pc = "loading"
  /\ projects' = [projects EXCEPT ![calls[c].projectId] = calls[c].db]
  /\ received' = [received EXCEPT ![calls[c].projectId] = @ \cup {calls[c].db}]
  /\ calls' = [calls EXCEPT ![c] = IdleCall]
  /\ UNCHANGED <<instances, retrievalVars, sessionVars, injected, restVars>>

InitGetProject ==
  /\ corpus = <<>>
  /\ NoRetrieval
  /\ StoreClosed /\ NoSessions
  /\ injected = [pair \in Pairs |-> {}]
  /\ NoRecords /\ NoMigration /\ NoLifecycle

NextGetProject ==
  \/ \E c \in Callers, projectId \in ProjectIds : GetProjectBegin(c, projectId)
  \/ \E c \in Callers : GetProjectFinish(c)

SpecGetProject == InitGetProject /\ [][NextGetProject]_vars

\* C9: all callers of getProject for one project id receive the same
\* ProjectDB, and its database and collections are created once.
C9_OneInstancePerProject ==
  \A projectId \in ProjectIds :
    /\ Cardinality(received[projectId]) <= 1
    /\ Cardinality(InstancesOf(projectId)) <= 1

(***************************************************************************)
(* Store: the session operations, one call at a time                       *)
(***************************************************************************)

\* the store calls made on sessions in one run, and the latest Date.now()
MaxOps == 4
MaxClock == 2

\* the calls completed so far: getOrCreateSession and incrementMessageCount
OpsDone ==
  LET RECURSIVE Sum(_)
      Sum(S) == IF S = {} THEN 0
                ELSE LET pair == CHOOSE x \in S : TRUE
                     IN  sessionLog[pair].gets + sessionLog[pair].increments
                           + Sum(S \ {pair})
  IN  Sum(Pairs)

\* time passes between calls
Tick ==
  /\ clock < MaxClock
  /\ clock' = clock + 1
  /\ UNCHANGED <<retrievalVars, projectVars, sessions, sessionLog, lastReturn, injected, restVars>>

\* await this.getProject(projectId) with no other call in flight
AwaitGetProject(projectId) ==
  /\ \A c \in Callers : calls[c].pc = "idle"
  /\ IF projects[projectId] /= NoProjectDB
     THEN /\ received' = [received EXCEPT ![projectId] = @ \cup {projects[projectId]}]
          /\ UNCHANGED <<projects, instances>>
     ELSE /\ instances' = Append(instances, projectId)
          /\ projects' = [projects EXCEPT ![projectId] = Len(instances) + 1]
          /\ received' = [received EXCEPT ![projectId] = @ \cup {Len(instances) + 1}]
  /\ UNCHANGED calls

\* a variant of CreatedSession that counts the creating request as a message
CreatedSessionCounted(now) ==
  [present |-> TRUE, message_count |-> 1, first_session_completed |-> FALSE,
   last_active |-> now]

\* the record getOrCreateSession inserts
CreatedSession(now) ==
  [present |-> TRUE, message_count |-> 0, first_session_completed |-> FALSE,
   last_active |-> now]

\* allSessions.some(s => s.first_session_completed)
SomeSessionCompleted(projectId) ==
  \E sessionId \in SessionIds :
    /\ sessions[<<projectId, sessionId>>].present
    /\ sessions[<<projectId, sessionId>>].first_session_completed

\* what getOrCreateSession returns
GetOrCreateSessionReturn(projectId, sessionId) ==
  LET existing == sessions[<<projectId, sessionId>>]
  IN  IF existing.present
      THEN [isNew |-> FALSE, messageCount |-> existing.message_count,
            firstSessionCompleted |-> existing.first_session_completed]
      ELSE [isNew |-> TRUE, messageCount |-> 0,
            firstSessionCompleted |-> SomeSessionCompleted(projectId)]

\* the sessions collections after getOrCreateSession
GetOrCreateSessionStored(projectId, sessionId) ==
  IF sessions[<<projectId, sessionId>>].present THEN sessions
  ELSE [sessions EXCEPT ![<<projectId, sessionId>>] = CreatedSession(clock)]

GetOrCreateSession(projectId, sessionId) ==
  /\ OpsDone < MaxOps
  /\ AwaitGetProject(projectId)
  /\ sessions' = GetOrCreateSessionStored(projectId, sessionId)
  /\ lastReturn' = [op |-> "getOrCreateSession", projectId |-> projectId,
                    sessionId |-> sessionId, threw |-> FALSE,
                    value |-> GetOrCreateSessionReturn(projectId, sessionId)]
  /\ sessionLog' = [sessionLog EXCEPT ![<<projectId, sessionId>>].gets = @ + 1]
  /\ UNCHANGED <<retrievalVars, clock, injected, restVars>>

\* a variant of NewCount that leaves the count as it was
NewCountUnchanged(session) == session.message_count

\* const newCount = session.message_count + 1
NewCount(session) == session.message_count + 1

\* a variant of IncrementMessageCount that creates the session it does not find
IncrementMessageCountUpsert(projectId, sessionId) ==
  LET session == IF sessions[<<projectId, sessionId>>].present
                 THEN sessions[<<projectId, sessionId>>]
                 ELSE CreatedSession(clock)
  IN  /\ OpsDone < MaxOps
      /\ AwaitGetProject(projectId)
      /\ sessions' = [sessions EXCEPT ![<<projectId, sessionId>>] =
                        [session EXCEPT !.message_count = NewCount(session),
                                        !.last_active = clock]]
      /\ lastReturn' = [op |-> "incrementMessageCount", projectId |-> projectId,
                        sessionId |-> sessionId, threw |-> FALSE,
                        value |-> NewCount(session)]
      /\ sessionLog' = [sessionLog EXCEPT
                          ![<<projectId, sessionId>>].increments = @ + 1]
      /\ UNCHANGED <<retrievalVars, clock, injected, restVars>>

\* incrementMessageCount: a session that does not exist makes it throw
IncrementMessageCount(projectId, sessionId) ==
  LET session == sessions[<<projectId, sessionId>>]
  IN  /\ OpsDone < MaxOps
      /\ AwaitGetProject(projectId)
      /\ IF ~session.present
         THEN /\ lastReturn' = [op |-> "incrementMessageCount", projectId |-> projectId,
                                sessionId |-> sessionId, threw |-> TRUE, value |-> 0]
              /\ UNCHANGED <<sessions, sessionLog>>
         ELSE /\ sessions' = [sessions EXCEPT ![<<projectId, sessionId>>] =
                                [session EXCEPT !.message_count = NewCount(session),
                                                !.last_active = clock]]
              /\ lastReturn' = [op |-> "incrementMessageCount", projectId |-> projectId,
                                sessionId |-> sessionId, threw |-> FALSE,
                                value |-> NewCount(session)]
              /\ sessionLog' = [sessionLog EXCEPT
                                  ![<<projectId, sessionId>>].increments = @ + 1]
      /\ UNCHANGED <<retrievalVars, clock, injected, restVars>>

\* markFirstSessionCompleted, on a session that exists
MarkFirstSessionCompleted(projectId, sessionId) ==
  /\ sessions[<<projectId, sessionId>>].present
  /\ AwaitGetProject(projectId)
  /\ sessions' = [sessions EXCEPT
                    ![<<projectId, sessionId>>].first_session_completed = TRUE]
  /\ lastReturn' = [op |-> "markFirstSessionCompleted", projectId |-> projectId,
                    sessionId |-> sessionId, threw |-> FALSE, value |-> 0]
  /\ UNCHANGED <<retrievalVars, clock, sessionLog, injected, restVars>>

InitSessions ==
  /\ corpus = <<>>
  /\ NoRetrieval
  /\ StoreClosed /\ NoSessions
  /\ injected = [pair \in Pairs |-> {}]
  /\ NoRecords /\ NoMigration /\ NoLifecycle

NextSessions ==
  \/ Tick
  \/ \E projectId \in ProjectIds, sessionId \in SessionIds :
       GetOrCreateSession(projectId, sessionId)
  \/ \E projectId \in ProjectIds, sessionId \in SessionIds :
       IncrementMessageCount(projectId, sessionId)
  \/ \E projectId \in ProjectIds, sessionId \in SessionIds :
       MarkFirstSessionCompleted(projectId, sessionId)

SpecSessions == InitSessions /\ [][NextSessions]_vars

\* C10: on every (project, session) pair getOrCreateSession reports isNew
\* on the first call only, a new session starts at message_count 0, and each
\* incrementMessageCount returns and stores the previous count plus 1, so
\* that message_count is the number of completed increments.
C10_SessionCounting ==
  /\ \A pair \in Pairs :
       /\ sessions[pair].present = (sessionLog[pair].gets >= 1)
       /\ sessions[pair].message_count = sessionLog[pair].increments
  /\ lastReturn.op = "getOrCreateSession" =>
       LET pair == <<lastReturn.projectId, lastReturn.sessionId>>
       IN  /\ lastReturn.value.isNew = (sessionLog[pair].gets = 1)
           /\ lastReturn.value.isNew => lastReturn.value.messageCount = 0
           /\ lastReturn.value.messageCount = sessionLog[pair].increments
  /\ (lastReturn.op = "incrementMessageCount" /\ ~lastReturn.threw) =>
       LET pair == <<lastReturn.projectId, lastReturn.sessionId>>
       IN  /\ lastReturn.value = sessionLog[pair].increments
           /\ lastReturn.value = sessions[pair].message_count

\* the second getOrCreateSession on a pair, after two increments on it and
\* a call on another session of the project
C10_Witness ==
  /\ lastReturn.op = "getOrCreateSession"
  /\ ~lastReturn.value.isNew
  /\ lastReturn.value.messageCount = 2
  /\ sessionLog[<<lastReturn.projectId, lastReturn.sessionId>>].gets = 2

(***************************************************************************)
(* Engine: getContext and trackMessage                                     *)
(***************************************************************************)

\* the memories an engine has stored, for its project and the global one
EngineCorpora ==
  { MakeCorpus(<<SixText @@ BaseMemory,
                 TwoText @@ [action_required |-> TRUE] @@ BaseMemory>>, <<FALSE, FALSE>>),
    MakeCorpus(<<TwoText @@ GlobalScope @@ BaseMemory, SixText @@ BaseMemory>>,
               <<FALSE, TRUE>>),
    MakeCorpus(<<SixText @@ GlobalScope @@ [context_type |-> "personal"] @@ BaseMemory,
                 TwoText @@ GlobalScope @@ BaseMemory>>, <<TRUE, FALSE>>) }

\* the limits an engine is configured with
EngineConfigs ==
  { [maxMemories |-> 1, maxGlobalMemories |-> 1],
    [maxMemories |-> 2, maxGlobalMemories |-> 1] }

\* the sessions that ask an engine for context, and what they write
EngineProjects == ProjectIds
EngineSessions(projectId) ==
  IF projectId = CurrentProject THEN SessionIds ELSE {"s1"}
EngineMessages == {m \in Messages : m.embedding \in {<<>>, <<1, 0>>}}

\* the memories of the project's database and of the global one
RECURSIVE MemoriesFor(_, _)
MemoriesFor(memories, projectId) ==
  IF memories = <<>> THEN <<>>
  ELSE (IF Head(memories).project_id \in {projectId, "global"}
        THEN <<Head(memories)>> ELSE <<>>)
       \o MemoriesFor(Tail(memories), projectId)

\* a variant of NotInjected that keeps every memory
NotInjectedKeepAll(memories, alreadyInjected) == memories

RECURSIVE NotInjected(_, _)
\* the memories whose id is not in the session's injected set
NotInjected(memories, alreadyInjected) ==
  IF memories = <<>> THEN <<>>
  ELSE (IF Head(memories).id \in alreadyInjected THEN <<>> ELSE <<Head(memories)>>)
       \o NotInjected(Tail(memories), alreadyInjected)

\* getContext: the primer for a new session without messages, a retrieval
\* otherwise
GetContext(projectId, sessionId, m) ==
  LET pair == <<projectId, sessionId>>
      session == GetOrCreateSessionReturn(projectId, sessionId)
      out == RetrieveRelevantMemories(
               NotInjected(MemoriesFor(corpus, projectId), injected[pair]),
               m.message, m.embedding, projectId,
               query.maxMemories, query.maxGlobalMemories)
  IN  /\ OpsDone < MaxOps
      /\ AwaitGetProject(projectId)
      /\ sessions' = GetOrCreateSessionStored(projectId, sessionId)
      /\ sessionLog' = [sessionLog EXCEPT ![pair].gets = @ + 1]
      /\ IF session.isNew /\ session.messageCount = 0
         THEN /\ lastReturn' = [op |-> "getContext", projectId |-> projectId,
                                sessionId |-> sessionId, threw |-> FALSE,
                                value |-> [primer |-> TRUE, memories |-> {},
                                           retrieval |-> FALSE]]
              /\ UNCHANGED <<retrieved, injected, restVars>>
         ELSE /\ retrieved' = [done |-> TRUE, out |-> out]
              /\ injected' = [injected EXCEPT ![pair] = @ \cup SelectedIds(out)]
              /\ lastReturn' = [op |-> "getContext", projectId |-> projectId,
                                sessionId |-> sessionId, threw |-> FALSE,
                                value |-> [primer |-> FALSE, memories |-> SelectedIds(out),
                                           retrieval |-> TRUE]]
      /\ UNCHANGED <<corpus, query, clock, restVars>>

\* trackMessage: the store's incrementMessageCount
TrackMessage(projectId, sessionId) == IncrementMessageCount(projectId, sessionId)

InitEngine ==
  /\ corpus \in EngineCorpora
  /\ query \in EngineConfigs
  /\ retrieved = NotRetrieved
  /\ StoreClosed /\ NoSessions
  /\ injected = [pair \in Pairs |-> {}]
  /\ NoRecords /\ NoMigration /\ NoLifecycle

NextEngine ==
  \/ \E projectId \in EngineProjects :
       \E sessionId \in EngineSessions(projectId), m \in EngineMessages :
         GetContext(projectId, sessionId, m)
  \/ \E projectId \in EngineProjects :
       \E sessionId \in EngineSessions(projectId) :
         TrackMessage(projectId, sessionId)

SpecEngine == InitEngine /\ [][NextEngine]_vars

\* C6: in every context request of a session, no memory id of the session's
\* injected set is returned, and the ids returned join the set: an id
\* returned once is not returned to the session again.
C6_InjectedNeverReturnedAgain ==
  [][ \A pair \in Pairs :
        sessionLog'[pair].gets /= sessionLog[pair].gets =>
          /\ lastReturn'.value.memories \cap injected[pair] = {}
          /\ injected'[pair] = injected[pair] \cup lastReturn'.value.memories ]_vars

\* a request returned a memory to a session that had been given another
\* memory before
C6_Witness ==
  /\ lastReturn.op = "getContext"
  /\ lastReturn.value.memories /= {}
  /\ injected[<<lastReturn.projectId, lastReturn.sessionId>>]
       \ lastReturn.value.memories /= {}

\* C8: the first context request of a (project, session) pair, which finds
\* the session new with message_count 0, returns a primer and no memories,
\* performs no retrieval, and leaves message_count at 0.
C8_FirstTurnPrimer ==
  [][ \A pair \in Pairs :
        (sessionLog[pair].gets = 0 /\ sessionLog'[pair].gets = 1) =>
          /\ lastReturn'.value.primer
          /\ lastReturn'.value.memories = {}
          /\ retrieved' = retrieved
          /\ injected' = injected
          /\ sessions'[pair].message_count = 0 ]_vars

\* a session got the primer while another session of the project has been
\* given memories of the same store
C8_Witness ==
  /\ lastReturn.op = "getContext"
  /\ lastReturn.value.primer
  /\ sessions[<<lastReturn.projectId, lastReturn.sessionId>>].message_count = 0
  /\ \E sessionId \in SessionIds : injected[<<lastReturn.projectId, sessionId>>] /= {}


(***************************************************************************)
(* Session summaries and project snapshots (store.ts).  A collection is    *)
(* the sequence of its records in the order all() yields them, which is    *)
(* the order of insertion; insert() stamps the record with the clock.      *)
(***************************************************************************)
MaxStored == 3

SummaryTexts == {"parser written"}
Phases == {"building"}

StoredCount ==
  LET RECURSIVE Sum(_)
      Sum(S) == IF S = {} THEN 0
                ELSE LET p == CHOOSE x \in S : TRUE
                     IN  Len(summaries[p]) + Len(snapshots[p]) + Sum(S \ {p})
  IN  Sum(ProjectIds)

\* the record insert() adds: the fields given, an id and the created stamp
Inserted(collection, fields, now) ==
  Append(collection, fields @@ [id |-> Len(collection) + 1, created |-> now])

StoreSessionSummary(projectId, sessionId, summary) ==
  /\ StoredCount < MaxStored
  /\ AwaitGetProject(projectId)
  /\ summaries' = [summaries EXCEPT ![projectId] =
                     Inserted(@, [session_id |-> sessionId, project_id |-> projectId,
                                  summary |-> summary, interaction_tone |-> ""], clock)]
  /\ lastReturn' = [op |-> "storeSessionSummary", projectId |-> projectId,
                    value |-> Len(summaries[projectId]) + 1]
  /\ UNCHANGED <<retrievalVars, sessions, clock, sessionLog, injected, snapshots,
                 migrationVars, lifecycleVars>>

\* null for an empty collection, else sorted[0] of the records sorted by
\* created, most recent first
LatestOf(all) == IF all = <<>> THEN <<>> ELSE <<SortedBy(all, "created")[1]>>

\* the object returned: the record with created as created_at
Returned(latest) ==
  IF latest = <<>> THEN <<>>
  ELSE <<[f \in (DOMAIN latest[1] \ {"created"}) \cup {"created_at"} |->
            IF f = "created_at" THEN latest[1].created ELSE latest[1][f]]>>

GetLatestSummary(projectId) ==
  /\ AwaitGetProject(projectId)
  /\ lastReturn' = [op |-> "getLatestSummary", projectId |-> projectId,
                    value |-> Returned(LatestOf(summaries[projectId]))]
  /\ UNCHANGED <<retrievalVars, sessions, clock, sessionLog, injected, restVars>>

StoreProjectSnapshot(projectId, sessionId, current_phase) ==
  /\ StoredCount < MaxStored
  /\ AwaitGetProject(projectId)
  /\ snapshots' = [snapshots EXCEPT ![projectId] =
                     Inserted(@, [session_id |-> sessionId, project_id |-> projectId,
                                  current_phase |-> current_phase], clock)]
  /\ lastReturn' = [op |-> "storeProjectSnapshot", projectId |-> projectId,
                    value |-> Len(snapshots[projectId]) + 1]
  /\ UNCHANGED <<retrievalVars, sessions, clock, sessionLog, injected, summaries,
                 migrationVars, lifecycleVars>>

GetLatestSnapshot(projectId) ==
  /\ AwaitGetProject(projectId)
  /\ lastReturn' = [op |-> "getLatestSnapshot", projectId |-> projectId,
                    value |-> Returned(LatestOf(snapshots[projectId]))]
  /\ UNCHANGED <<retrievalVars, sessions, clock, sessionLog, injected, restVars>>

InitRecords ==
  /\ corpus = <<>>
  /\ NoRetrieval
  /\ StoreClosed /\ NoSessions
  /\ injected = [pair \in Pairs |-> {}]
  /\ NoRecords /\ NoMigration /\ NoLifecycle

NextRecords ==
  \/ Tick
  \/ \E projectId \in ProjectIds, sessionId \in SessionIds, summary \in SummaryTexts :
       StoreSessionSummary(projectId, sessionId, summary)
  \/ \E projectId \in ProjectIds : GetLatestSummary(projectId)
  \/ \E projectId \in ProjectIds, sessionId \in SessionIds, phase \in Phases :
       StoreProjectSnapshot(projectId, sessionId, phase)
  \/ \E projectId \in ProjectIds : GetLatestSnapshot(projectId)

SpecRecords == InitRecords /\ [][NextRecords]_vars

\* the collection a getLatest call read
CollectionRead ==
  IF lastReturn.op = "getLatestSummary" THEN summaries[lastReturn.projectId]
  ELSE snapshots[lastReturn.projectId]

\* C11: getLatestSummary and getLatestSnapshot return the record stored last
\* for the project, also when several records share a creation timestamp,
\* and return null only when none was stored.
C11_LatestIsLastStored ==
  lastReturn.op \in {"getLatestSummary", "getLatestSnapshot"} =>
    /\ (lastReturn.value = <<>>) = (CollectionRead = <<>>)
    /\ CollectionRead /= <<>> =>
         lastReturn.value[1].id = CollectionRead[Len(CollectionRead)].id


(***************************************************************************)
(* Memory files: YAML frontmatter and body (part_001).  A frontmatter is   *)
(* the sequence of its entries in Object.entries order; a value carries    *)
(* its JavaScript type.                                                    *)
(***************************************************************************)
Str(s) == [t |-> "string", str |-> s]
\* a number, held as its count of hundredths
Num(hundredths) == [t |-> "number", num |-> hundredths]
Bool(b) == [t |-> "boolean", bool |-> b]
Null == [t |-> "null"]
Arr(items) == [t |-> "array", items |-> items]

\* s.indexOf(sub) + 1: the first position at which sub occurs, 0 when none
IndexOf(s, sub) ==
  LET at == {i \in 1..(Len(s) - Len(sub) + 1) : SubSeq(s, i, i + Len(sub) - 1) = sub}
  IN  IF at = {} THEN 0 ELSE CHOOSE i \in at : \A j \in at : i <= j

StartsWith(s, prefix) == Len(s) >= Len(prefix) /\ SubSeq(s, 1, Len(prefix)) = prefix
EndsWith(s, suffix) ==
  Len(s) >= Len(suffix) /\ SubSeq(s, Len(s) - Len(suffix) + 1, Len(s)) = suffix

RECURSIVE SplitOn(_, _)
\* s.split(sep)
SplitOn(s, sep) ==
  LET i == IndexOf(s, sep)
  IN  IF i = 0 THEN <<s>>
      ELSE <<SubSeq(s, 1, i - 1)>> \o SplitOn(SubSeq(s, i + Len(sep), Len(s)), sep)

RECURSIVE Join(_, _)
\* parts.join(sep)
Join(parts, sep) ==
  IF parts = <<>> THEN ""
  ELSE IF Len(parts) = 1 THEN parts[1]
  ELSE parts[1] \o sep \o Join(Tail(parts), sep)

RECURSIVE JsonEscape(_)
\* the characters of a JSON string literal for s
JsonEscape(s) ==
  IF s = "" THEN ""
  ELSE LET c == CharAt(s, 1)
       IN  (CASE c = "\"" -> "\\\""
              [] c = "\\" -> "\\\\"
              [] c = "\n" -> "\\n"
              [] c = "\t" -> "\\t"
              [] c = "\r" -> "\\r"
              [] OTHER -> c) \o JsonEscape(SubSeq(s, 2, Len(s)))

\* String(number): the shortest decimal text of a count of hundredths
NumberText(hundredths) ==
  LET abs == IF hundredths < 0 THEN 0 - hundredths ELSE hundredths
      fraction == abs % 100
  IN  (IF hundredths < 0 THEN "-" ELSE "") \o ToString(abs \div 100) \o
      (IF fraction = 0 THEN ""
       ELSE IF fraction % 10 = 0 THEN "." \o ToString(fraction \div 10)
       ELSE IF fraction < 10 THEN ".0" \o ToString(fraction)
       ELSE "." \o ToString(fraction))

\* JSON.stringify of a string, a number or an array of them
JsonStringify(value) ==
  LET One(v) == IF v.t = "string" THEN "\"" \o JsonEscape(v.str) \o "\""
                ELSE NumberText(v.num)
  IN  IF value.t = "array"
      THEN "[" \o Join([i \in 1..Len(value.items) |-> One(value.items[i])], ",") \o "]"
      ELSE One(value)

\* text is decimal digits only, at least one
IsDigits(text) ==
  text /= "" /\ \A i \in 1..Len(text) : Includes(Digits, CharAt(text, i))

\* text is an optional sign, digits and optionally a point and one or two
\* digits: the numeric texts of the model
IsNumberText(text) ==
  LET unsigned == IF StartsWith(text, "-") \/ StartsWith(text, "+")
                  THEN SubSeq(text, 2, Len(text)) ELSE text
      point == IndexOf(unsigned, ".")
  IN  IF point = 0 THEN IsDigits(unsigned)
      ELSE /\ IsDigits(SubSeq(unsigned, 1, point - 1))
           /\ IsDigits(SubSeq(unsigned, point + 1, Len(unsigned)))
           /\ Len(unsigned) - point <= 2

RECURSIVE DigitsValue(_)
DigitsValue(digits) ==
  IF digits = "" THEN 0
  ELSE 10 * DigitsValue(SubSeq(digits, 1, Len(digits) - 1))
       + (IndexOf(Digits, CharAt(digits, Len(digits))) - 1)

\* Number(text) for a numeric text, in hundredths
NumberOf(text) ==
  LET unsigned == IF StartsWith(text, "-") \/ StartsWith(text, "+")
                  THEN SubSeq(text, 2, Len(text)) ELSE text
      point == IndexOf(unsigned, ".")
      whole == IF point = 0 THEN unsigned ELSE SubSeq(unsigned, 1, point - 1)
      fraction == IF point = 0 THEN "" ELSE SubSeq(unsigned, point + 1, Len(unsigned))
      abs == 100 * DigitsValue(whole)
             + (IF Len(fraction) = 1 THEN 10 * DigitsValue(fraction)
                ELSE DigitsValue(fraction))
  IN  IF StartsWith(text, "-") THEN 0 - abs ELSE abs

RECURSIVE JsonStringEnd(_, _)
\* the position of the quote that closes the string literal opened at t[1]
JsonStringEnd(t, i) ==
  IF i > Len(t) THEN 0
  ELSE IF CharAt(t, i) = "\\" THEN JsonStringEnd(t, i + 2)
  ELSE IF CharAt(t, i) = "\"" THEN i
  ELSE JsonStringEnd(t, i + 1)

RECURSIVE JsonUnescape(_)
\* the string a JSON string literal's characters stand for
JsonUnescape(s) ==
  IF s = "" THEN ""
  ELSE IF CharAt(s, 1) = "\\"
  THEN LET c == CharAt(s, 2)
       IN  (CASE c = "n" -> "\n" [] c = "t" -> "\t" [] c = "r" -> "\r" [] OTHER -> c)
           \o JsonUnescape(SubSeq(s, 3, Len(s)))
  ELSE CharAt(s, 1) \o JsonUnescape(SubSeq(s, 2, Len(s)))

JsonFailure == [ok |-> FALSE]

RECURSIVE JsonElements(_)
\* the elements of a JSON array whose text after "[" or "," is t; the
\* elements are string literals and integers
JsonElements(t) ==
  LET u == TrimStart(t)
      Then(item, after) ==
        LET w == TrimStart(after)
        IN  IF w = "]" THEN [ok |-> TRUE, items |-> <<item>>]
            ELSE IF StartsWith(w, ",")
            THEN LET more == JsonElements(SubSeq(w, 2, Len(w)))
                 IN  IF more.ok THEN [ok |-> TRUE, items |-> <<item>> \o more.items]
                     ELSE JsonFailure
            ELSE JsonFailure
  IN  IF StartsWith(u, "\"")
      THEN LET e == JsonStringEnd(u, 2)
           IN  IF e = 0 THEN JsonFailure
               ELSE Then(Str(JsonUnescape(SubSeq(u, 2, e - 1))), SubSeq(u, e + 1, Len(u)))
      ELSE LET ends == {i \in 1..Len(u) : CharAt(u, i) \in {",", "]"}}
               e == IF ends = {} THEN 0 ELSE CHOOSE i \in ends : \A j \in ends : i <= j
               text == TrimEnd(SubSeq(u, 1, e - 1))
           IN  IF e = 0 \/ ~IsNumberText(text) \/ StartsWith(text, "+") THEN JsonFailure
               ELSE Then(Num(NumberOf(text)), SubSeq(u, e, Len(u)))

\* JSON.parse of a text that starts with "[" and ends with "]"
JsonParseArray(text) ==
  IF Trim(SubSeq(text, 2, Len(text) - 1)) = "" /\ Len(text) >= 2
  THEN [ok |-> TRUE, items |-> <<>>]
  ELSE JsonElements(SubSeq(text, 2, Len(text)))

\* the value of a frontmatter line's text after the colon
ParseValue(value) ==
  IF StartsWith(value, "[") /\ EndsWith(value, "]")
  THEN LET parsed == JsonParseArray(value)
       IN  IF parsed.ok THEN Arr(parsed.items) ELSE Str(value)
  ELSE IF value = "true" THEN Bool(TRUE)
  ELSE IF value = "false" THEN Bool(FALSE)
  ELSE IF value = "null" \/ value = "" THEN Null
  ELSE IF IsNumberText(value) THEN Num(NumberOf(value))
  ELSE IF \/ StartsWith(value, "\"") /\ EndsWith(value, "\"")
          \/ StartsWith(value, "'") /\ EndsWith(value, "'")
  THEN Str(SubSeq(value, 2, Len(value) - 1))
  ELSE Str(value)

\* key in frontmatter
HasField(frontmatter, key) == \E i \in 1..Len(frontmatter) : frontmatter[i].key = key

\* frontmatter[key], null standing for undefined as well
Field(frontmatter, key) ==
  IF HasField(frontmatter, key)
  THEN frontmatter[CHOOSE i \in 1..Len(frontmatter) : frontmatter[i].key = key].value
  ELSE Null

\* frontmatter[key] = value
SetField(frontmatter, key, value) ==
  IF HasField(frontmatter, key)
  THEN [i \in 1..Len(frontmatter) |->
          IF frontmatter[i].key = key THEN [key |-> key, value |-> value]
          ELSE frontmatter[i]]
  ELSE Append(frontmatter, [key |-> key, value |-> value])

RECURSIVE ParseLines(_, _)
\* the loop over the frontmatter's lines
ParseLines(lines, frontmatter) ==
  IF lines = <<>> THEN frontmatter
  ELSE LET line == Head(lines)
           colonIndex == IndexOf(line, ":")
       IN  IF colonIndex = 0 THEN ParseLines(Tail(lines), frontmatter)
           ELSE ParseLines(Tail(lines),
                  SetField(frontmatter, Trim(SubSeq(line, 1, colonIndex - 1)),
                           ParseValue(Trim(SubSeq(line, colonIndex + 1, Len(line))))))

NoMatch == [ok |-> FALSE]

\* content.match(/^---\n([\s\S]*?)\n---\n?([\s\S]*)$/) and the line loop
ParseFrontmatter(content) ==
  IF ~StartsWith(content, "---\n") THEN NoMatch
  ELSE LET rest == SubSeq(content, 5, Len(content))
           close == IndexOf(rest, "\n---")
           after == SubSeq(rest, close + 4, Len(rest))
       IN  IF close = 0 THEN NoMatch
           ELSE [ok |-> TRUE,
                 frontmatter |-> ParseLines(SplitOn(SubSeq(rest, 1, close - 1), "\n"), <<>>),
                 body |-> IF StartsWith(after, "\n") THEN SubSeq(after, 2, Len(after))
                          ELSE after]

\* /[:#\[\]{}'",]/.test(value) || value.includes('\n')
NeedsQuotes(value) ==
  \E i \in 1..Len(value) :
     CharAt(value, i) \in {":", "#", "[", "]", "{", "}", "'", "\"", ",", "\n"}

\* the line written for one entry; a function or an object passes the
\* needsQuotes test as its source text does, and JSON.stringify gives
\* undefined for a function and {} for Object.prototype
SerializeLine(entry) ==
  LET value == entry.value
  IN  entry.key \o ": " \o
        (CASE value.t = "null" -> "null"
           [] value.t = "function" -> "undefined"
           [] value.t = "object" -> "{}"
           [] value.t = "array" -> JsonStringify(value)
           [] value.t = "boolean" -> (IF value.bool THEN "true" ELSE "false")
           [] value.t = "number" -> NumberText(value.num)
           [] value.t = "string" ->
                IF NeedsQuotes(value.str) THEN JsonStringify(value) ELSE value.str)

SerializeFrontmatter(frontmatter, body) ==
  Join(<<"---">> \o [i \in 1..Len(frontmatter) |-> SerializeLine(frontmatter[i])]
         \o <<"---">>
         \o (IF Trim(body) /= "" THEN <<"", Trim(body)>> ELSE <<>>), "\n") \o "\n"



(***************************************************************************)
(* The v3 schema: canonical context types and their migration (store.ts)   *)
(***************************************************************************)
V3_SCHEMA_VERSION == 3

CANONICAL_CONTEXT_TYPES ==
  <<"technical", "debug", "architecture", "decision", "personal", "philosophy",
    "workflow", "milestone", "breakthrough", "unresolved", "state">>

\* the entries of the object literal, in the order written
CONTEXT_TYPE_MIGRATION_MAP == <<
  <<"technical", "technical">>, <<"technical_implementation", "technical">>,
  <<"technical_pattern", "technical">>, <<"technical_solution", "technical">>,
  <<"technical_insight", "technical">>, <<"technical_reference", "technical">>,
  <<"technical_achievement", "technical">>, <<"technical_discovery", "technical">>,
  <<"technical_milestone", "technical">>, <<"technical_verification", "technical">>,
  <<"technical_validation", "technical">>, <<"technical_research", "technical">>,
  <<"technical_metrics", "technical">>, <<"technical_knowledge", "technical">>,
  <<"technical_improvement", "technical">>, <<"technical_connection", "technical">>,
  <<"technical_completion", "technical">>, <<"technical_clarification", "technical">>,
  <<"technical_blocker", "technical">>, <<"technical-pattern", "technical">>,
  <<"technical-solution", "technical">>, <<"implementation", "technical">>,
  <<"implementation_detail", "technical">>, <<"implementation_pattern", "technical">>,
  <<"implementation_task", "technical">>, <<"implementation_status", "technical">>,
  <<"implementation_reference", "technical">>,
  <<"implementation_breakthrough", "technical">>,
  <<"implementation-gap", "technical">>, <<"implementation-detail", "technical">>,
  <<"implementation-complete", "technical">>,
  <<"feature_implementation", "technical">>, <<"feature_specification", "technical">>,
  <<"feature_reference", "technical">>, <<"feature_design", "technical">>,
  <<"code_reference", "technical">>, <<"code_quality", "technical">>,
  <<"code_patterns", "technical">>, <<"code_pattern", "technical">>,
  <<"coding_pattern", "technical">>, <<"api_reference", "technical">>,
  <<"api_migration", "technical">>, <<"api_limitation", "technical">>,
  <<"api_documentation", "technical">>, <<"api_design", "technical">>,
  <<"api_configuration", "technical">>, <<"api_clarification", "technical">>,
  <<"reference", "technical">>, <<"reference_implementation", "technical">>,
  <<"domain_knowledge", "technical">>, <<"configuration", "technical">>,
  <<"deployment_configuration", "technical">>, <<"tool_knowledge", "technical">>,
  <<"tool_created", "technical">>, <<"problem_solution", "technical">>,
  <<"general", "technical">>, <<"insight", "technical">>,
  <<"validation", "technical">>, <<"validation_results", "technical">>,
  <<"debug", "debug">>, <<"debugging", "debug">>, <<"debugging_insight", "debug">>,
  <<"debugging_technique", "debug">>, <<"debugging_tool", "debug">>,
  <<"debugging_context", "debug">>, <<"active_debugging", "debug">>,
  <<"bug_fix", "debug">>, <<"bug_solution", "debug">>, <<"bug_report", "debug">>,
  <<"bug_fix_pattern", "debug">>, <<"bug_fix_needed", "debug">>,
  <<"bug_discovery", "debug">>, <<"active_bug", "debug">>, <<"active_issue", "debug">>,
  <<"technical_gotcha", "debug">>, <<"gotcha", "debug">>,
  <<"problem_discovery", "debug">>, <<"technical_fix", "debug">>,
  <<"solved", "debug">>, <<"critical_discovery", "debug">>,
  <<"architecture", "architecture">>, <<"architectural", "architecture">>,
  <<"architectural_decision", "architecture">>,
  <<"architectural_pattern", "architecture">>,
  <<"architectural_principle", "architecture">>,
  <<"architectural_insight", "architecture">>,
  <<"architectural_understanding", "architecture">>,
  <<"architectural_discovery", "architecture">>,
  <<"architectural_direction", "architecture">>,
  <<"architectural-decision", "architecture">>,
  <<"architecture_pattern", "architecture">>,
  <<"architecture_decision", "architecture">>,
  <<"architecture_documentation", "architecture">>,
  <<"system_design", "architecture">>, <<"design_pattern", "architecture">>,
  <<"design_methodology", "architecture">>, <<"design_principle", "architecture">>,
  <<"design_insight", "architecture">>, <<"design_system", "architecture">>,
  <<"design-system", "architecture">>, <<"core_concept", "architecture">>,
  <<"decision", "decision">>, <<"technical_decision", "decision">>,
  <<"design_decision", "decision">>, <<"design-decision", "decision">>,
  <<"design_philosophy", "decision">>, <<"strategic_decision", "decision">>,
  <<"strategic_priority", "decision">>, <<"project-decision", "decision">>,
  <<"personal", "personal">>, <<"personal_context", "personal">>,
  <<"personal_update", "personal">>, <<"personal_philosophy", "personal">>,
  <<"relationship", "personal">>, <<"relationship_context", "personal">>,
  <<"relationship_pattern", "personal">>, <<"relationship_insight", "personal">>,
  <<"relationship_philosophy", "personal">>, <<"relationship_milestone", "personal">>,
  <<"relationship_moment", "personal">>, <<"relationship_dynamics", "personal">>,
  <<"relationship_dynamic", "personal">>, <<"relationship_repair", "personal">>,
  <<"preference", "personal">>, <<"user_preference", "personal">>,
  <<"collaborator_philosophy", "personal">>, <<"collaborator-guidance", "personal">>,
  <<"collaboration_philosophy", "personal">>, <<"collaboration_pattern", "personal">>,
  <<"collaboration_insight", "personal">>, <<"collaboration_context", "personal">>,
  <<"collaboration", "personal">>, <<"user_philosophy", "personal">>,
  <<"philosophy", "philosophy">>, <<"philosophical_insight", "philosophy">>,
  <<"philosophical_framework", "philosophy">>,
  <<"philosophical_anchor", "philosophy">>,
  <<"philosophical_technical_bridge", "philosophy">>,
  <<"project_philosophy", "philosophy">>, <<"product_philosophy", "philosophy">>,
  <<"values_and_ethics", "philosophy">>, <<"wisdom", "philosophy">>,
  <<"workflow", "workflow">>, <<"workflow_pattern", "workflow">>,
  <<"development_workflow", "workflow">>, <<"development_tip", "workflow">>,
  <<"developer_preferences", "workflow">>, <<"development_practice", "workflow">>,
  <<"development_methodology", "workflow">>, <<"milestone", "milestone">>,
  <<"project_milestone", "milestone">>, <<"creative_achievement", "milestone">>,
  <<"technical_achievement", "milestone">>, <<"breakthrough", "breakthrough">>,
  <<"unresolved", "unresolved">>, <<"todo", "unresolved">>,
  <<"open_question", "unresolved">>, <<"open_questions", "unresolved">>,
  <<"open_investigation", "unresolved">>, <<"pending_work", "unresolved">>,
  <<"pending_task", "unresolved">>, <<"planned_experiment", "unresolved">>,
  <<"work_in_progress", "unresolved">>, <<"upcoming_work", "unresolved">>,
  <<"future_planning", "unresolved">>, <<"planning", "unresolved">>,
  <<"state", "state">>, <<"technical_state", "state">>, <<"project_status", "state">>,
  <<"project_state", "state">>, <<"project_context", "state">>,
  <<"project_structure", "state">>, <<"project_roadmap", "state">>,
  <<"project_organization", "state">>, <<"project_foundation", "state">>,
  <<"project_direction", "state">>, <<"project_vision", "state">>,
  <<"project_documentation", "state">>, <<"project_architecture", "state">>,
  <<"experimental_result", "state">>, <<"performance_data", "state">>,
  <<"framework_status", "state">>
  >>

V3_DELETED_FIELDS ==
  <<"emotional_resonance", "knowledge_domain", "component", "prerequisite_understanding",
    "follow_up_context", "dependency_context", "retrieval_weight", "parent_id",
    "child_ids", "expires_after_sessions", "temporal_relevance">>

TEMPORAL_RELEVANCE_TO_CLASS ==
  << <<"persistent", "long_term">>, <<"session", "short_term">>,
     <<"temporary", "ephemeral">>, <<"archived", "medium_term">> >>

\* fade_rate in hundredths
V3_TYPE_DEFAULTS ==
  [personal     |-> [scope |-> "global",  temporal_class |-> "eternal",     fade_rate |-> 0],
   philosophy   |-> [scope |-> "global",  temporal_class |-> "eternal",     fade_rate |-> 0],
   breakthrough |-> [scope |-> "project", temporal_class |-> "eternal",     fade_rate |-> 0],
   decision     |-> [scope |-> "project", temporal_class |-> "long_term",   fade_rate |-> 0],
   milestone    |-> [scope |-> "project", temporal_class |-> "eternal",     fade_rate |-> 0],
   architecture |-> [scope |-> "project", temporal_class |-> "long_term",   fade_rate |-> 1],
   workflow     |-> [scope |-> "project", temporal_class |-> "long_term",   fade_rate |-> 2],
   technical    |-> [scope |-> "project", temporal_class |-> "medium_term", fade_rate |-> 3],
   debug        |-> [scope |-> "project", temporal_class |-> "medium_term", fade_rate |-> 3],
   unresolved   |-> [scope |-> "project", temporal_class |-> "medium_term", fade_rate |-> 5],
   state        |-> [scope |-> "project", temporal_class |-> "short_term",  fade_rate |-> 10]]

\* the property names every object inherits from Object.prototype
ObjectPrototypeKeys ==
  {"constructor", "__proto__", "hasOwnProperty", "isPrototypeOf", "propertyIsEnumerable",
   "toLocaleString", "toString", "valueOf", "__defineGetter__", "__defineSetter__",
   "__lookupGetter__", "__lookupSetter__"}

\* the member of Object.prototype of that name: a function, or for
\* __proto__ an object
Inherited(key) == [t |-> IF key = "__proto__" THEN "object" ELSE "function", name |-> key]

OwnKeys(entries) == {entries[i][1] : i \in 1..Len(entries)}

\* key in object, for an object written as a literal or read from JSON
KeyIn(key, entries) == key \in OwnKeys(entries) \cup ObjectPrototypeKeys

\* object[key]: the last entry written for the key, else the inherited
\* member, else undefined
Member(entries, key) ==
  IF key \in OwnKeys(entries)
  THEN LET at == {i \in 1..Len(entries) : entries[i][1] = key}
       IN  Str(entries[CHOOSE i \in at : \A j \in at : j <= i][2])
  ELSE IF key \in ObjectPrototypeKeys THEN Inherited(key)
  ELSE Null

\* the value is truthy
Truthy(value) ==
  CASE value.t = "null" -> FALSE
    [] value.t = "string" -> value.str /= ""
    [] value.t = "number" -> value.num /= 0
    [] value.t = "boolean" -> value.bool
    [] OTHER -> TRUE

\* left ?? right
OrElse(left, right) == IF left.t = "null" THEN right ELSE left

IsCanonical(value) ==
  value.t = "string" /\ value.str \in SeqToSet(CANONICAL_CONTEXT_TYPES)

\* migrateContextType(oldType) with preserveUnknown false
MigrateContextType(oldType) ==
  IF ~Truthy(oldType) THEN Str("technical")
  ELSE LET normalized == Trim(ToLowerCase(oldType.str))
           has(keyword) == Includes(normalized, keyword)
       IN  IF IsCanonical(Str(normalized)) THEN Str(normalized)
           ELSE IF KeyIn(normalized, CONTEXT_TYPE_MIGRATION_MAP)
           THEN Member(CONTEXT_TYPE_MIGRATION_MAP, normalized)
           ELSE IF has("debug") \/ has("bug") \/ has("fix") THEN Str("debug")
           ELSE IF has("architect") \/ has("design") \/ has("pattern")
           THEN Str("architecture")
           ELSE IF has("decision") \/ has("choice") THEN Str("decision")
           ELSE IF has("personal") \/ has("relationship") \/ has("preference")
           THEN Str("personal")
           ELSE IF has("philosoph") \/ has("value") \/ has("wisdom") THEN Str("philosophy")
           ELSE IF has("workflow") \/ has("process") THEN Str("workflow")
           ELSE IF has("milestone") \/ has("achievement") \/ has("complete")
           THEN Str("milestone")
           ELSE IF has("breakthrough") \/ has("insight") \/ has("discover")
           THEN Str("breakthrough")
           ELSE IF has("unresolved") \/ has("todo") \/ has("open") \/ has("pending")
           THEN Str("unresolved")
           ELSE IF has("state") \/ has("status") \/ has("current") THEN Str("state")
           ELSE Str("technical")

\* migrateTemporalRelevance
MigrateTemporalRelevance(temporal_relevance) ==
  IF ~Truthy(temporal_relevance) THEN Null
  ELSE Member(TEMPORAL_RELEVANCE_TO_CLASS, temporal_relevance.str)

(***************************************************************************)
(* The v3 migration of a memory file (part_001)                            *)
(***************************************************************************)
\* no --mapping file was loaded
NoMapping == [loaded |-> FALSE, entries |-> <<>>]

\* a variant of GetMigratedContextType that never reads the custom mapping
GetMigratedContextTypeBuiltIn(oldType, customMapping) ==
  OrElse(MigrateContextType(oldType), Str("technical"))

\* getMigratedContextType, customMapping being the module's variable
GetMigratedContextType(oldType, customMapping) ==
  IF /\ customMapping.loaded
     /\ KeyIn(oldType.str, customMapping.entries)
     /\ IsCanonical(Member(customMapping.entries, oldType.str))
  THEN Member(customMapping.entries, oldType.str)
  ELSE OrElse(MigrateContextType(oldType), Str("technical"))

\* migrated[key] = migrated[key] ?? value
Defaulted(frontmatter, key, value) ==
  SetField(frontmatter, key, OrElse(Field(frontmatter, key), value))

RECURSIVE DeleteFields(_, _)
\* delete migrated[field] for the fields named
DeleteFields(frontmatter, fields) ==
  IF frontmatter = <<>> THEN <<>>
  ELSE (IF Head(frontmatter).key \in fields THEN <<>> ELSE <<Head(frontmatter)>>)
       \o DeleteFields(Tail(frontmatter), fields)

\* frontmatter[key] === undefined || frontmatter[key] === null
Missing(frontmatter, key) == Field(frontmatter, key).t = "null"

\* the temporal_class taken from a v2 temporal_relevance
TemporalMigrated(frontmatter) ==
  LET migratedTemporal == MigrateTemporalRelevance(Field(frontmatter, "temporal_relevance"))
  IN  IF /\ ~Truthy(Field(frontmatter, "temporal_class"))
         /\ Truthy(Field(frontmatter, "temporal_relevance"))
         /\ Truthy(migratedTemporal)
      THEN SetField(frontmatter, "temporal_class", migratedTemporal)
      ELSE frontmatter

\* the defaults of the fields added by v3
FlagsDefaulted(frontmatter) ==
  Defaulted(Defaulted(Defaulted(Defaulted(frontmatter,
    "sessions_since_surfaced", Num(0)),
    "awaiting_implementation", Bool(FALSE)),
    "awaiting_decision", Bool(FALSE)),
    "exclude_from_retrieval", Bool(FALSE))

ListsDefaulted(frontmatter) ==
  Defaulted(Defaulted(Defaulted(Defaulted(Defaulted(frontmatter,
    "related_to", Arr(<<>>)), "resolves", Arr(<<>>)), "blocks", Arr(<<>>)),
    "related_files", Arr(<<>>)), "anti_triggers", Arr(<<>>))

\* applyV3Migration: the migrated frontmatter, or the TypeError of reading a
\* property of an undefined typeDefaults
ApplyV3Migration(frontmatter, customMapping) ==
  LET oldContextType == OrElse(Field(frontmatter, "context_type"), Str("general"))
      newContextType == GetMigratedContextType(oldContextType, customMapping)
      hasDefaults == IsCanonical(newContextType)
      typeDefaults == V3_TYPE_DEFAULTS[newContextType.str]
      statused == Defaulted(SetField(frontmatter, "context_type", newContextType),
                            "status", Str("active"))
      scoped == Defaulted(statused, "scope", Str(typeDefaults.scope))
      temporal == TemporalMigrated(scoped)
      classed == Defaulted(temporal, "temporal_class", Str(typeDefaults.temporal_class))
      faded == Defaulted(classed, "fade_rate", Num(typeDefaults.fade_rate))
      kept == DeleteFields(ListsDefaulted(FlagsDefaulted(faded)),
                           SeqToSet(V3_DELETED_FIELDS))
  IN  IF /\ ~hasDefaults
         /\ \/ Missing(statused, "scope")
            \/ Missing(temporal, "temporal_class")
            \/ Missing(classed, "fade_rate")
      THEN [threw |-> TRUE]
      ELSE [threw |-> FALSE,
            migrated |-> SetField(kept, "schema_version", Num(100 * V3_SCHEMA_VERSION))]

(***************************************************************************)
(* Serializing a memory record and parsing it back                         *)
(***************************************************************************)
\* the values a record's fields take: a string, a number, a boolean, a
\* nullable id and an array of strings
FieldValues ==
  [content |-> {Str("parser fixed"), Str("he said \"done\""), Str("see: notes"),
                Str("true"), Str("42")},
   sessions_since_surfaced |-> {Num(0), Num(1200)},
   action_required |-> {Bool(TRUE), Bool(FALSE)},
   superseded_by |-> {Null, Str("m1")},
   importance_weight |-> {Num(70)},
   semantic_tags |-> {Arr(<<>>), Arr(<<Str("parser")>>), Arr(<<Str("a,b"), Str("say \"x\"")>>)}]

FieldOrder == <<"content", "importance_weight", "sessions_since_surfaced",
                "action_required", "superseded_by", "semantic_tags">>

Bodies == {"", "Body text", "Two\nlines"}

Records ==
  {[i \in 1..Len(FieldOrder) |-> [key |-> FieldOrder[i], value |-> choice[FieldOrder[i]]]] :
     choice \in [content : FieldValues.content,
                 importance_weight : FieldValues.importance_weight,
                 sessions_since_surfaced : FieldValues.sessions_since_surfaced,
                 action_required : FieldValues.action_required,
                 superseded_by : FieldValues.superseded_by,
                 semantic_tags : FieldValues.semantic_tags]}

InitRoundTrip ==
  /\ corpus = <<>>
  /\ NoRetrieval
  /\ StoreClosed /\ NoSessions
  /\ injected = [pair \in Pairs |-> {}]
  /\ NoRecords /\ NoLifecycle
  /\ files = <<>>
  /\ migrationLog = [runs |-> 0]
  /\ \E frontmatter \in Records, body \in Bodies :
       document = [op |-> "record", frontmatter |-> frontmatter, body |-> body]

\* parseFrontmatter(serializeFrontmatter(frontmatter, body))
RoundTrip ==
  /\ document.op = "record"
  /\ LET text == SerializeFrontmatter(document.frontmatter, document.body)
     IN  document' = [op |-> "parsed", frontmatter |-> document.frontmatter,
                      body |-> document.body, text |-> text,
                      parsed |-> ParseFrontmatter(text)]
  /\ UNCHANGED <<retrievalVars, projectVars, sessionVars, injected, recordVars,
                 files, migrationLog, lifecycleVars>>

NextRoundTrip == RoundTrip

SpecRoundTrip == InitRoundTrip /\ [][NextRoundTrip]_vars

\* C13: for every record with valid fields and a body,
\* parseFrontmatter(serializeFrontmatter(frontmatter, body)) yields the same
\* frontmatter values with the same types and the same body.
C13_RoundTrip ==
  document.op = "parsed" =>
    /\ document.parsed.ok
    /\ document.parsed.frontmatter = document.frontmatter
    /\ document.parsed.body = document.body



\* needsV3Migration
NeedsV3Migration(frontmatter) ==
  LET schema_version == Field(frontmatter, "schema_version")
      below == CASE schema_version.t = "number" ->
                      schema_version.num < 100 * V3_SCHEMA_VERSION
                 [] schema_version.t = "string" ->
                      /\ IsNumberText(Trim(schema_version.str))
                      /\ NumberOf(Trim(schema_version.str)) < 100 * V3_SCHEMA_VERSION
                 [] schema_version.t = "boolean" -> TRUE
                 [] OTHER -> FALSE
      contextType == OrElse(Field(frontmatter, "context_type"), Str(""))
      key == CASE contextType.t = "string" -> contextType.str
               [] contextType.t = "number" -> NumberText(contextType.num)
               [] contextType.t = "boolean" -> (IF contextType.bool THEN "true" ELSE "false")
               [] OTHER -> ""
  IN  \/ ~Truthy(schema_version) \/ below
      \/ key \notin (DOMAIN V3_TYPE_DEFAULTS) \cup ObjectPrototypeKeys
      \/ \E i \in 1..Len(V3_DELETED_FIELDS) : HasField(frontmatter, V3_DELETED_FIELDS[i])

\* the vector the embedder returns for a text: three numbers stand for its
\* 384, and a stored vector has the right dimensions when it has as many
EmbedderOutput == <<Num(100), Num(0), Num(-50)>>

\* hasNullEmbedding || hasWrongDimensions
EmbeddingWanted(frontmatter) ==
  LET embedding == Field(frontmatter, "embedding")
  IN  \/ ~Truthy(embedding)
      \/ embedding.t = "array" /\ Len(embedding.items) /= Len(EmbedderOutput)

\* newFrontmatter.embedding = Array.from(embedding), when one is generated
Embedded(frontmatter, generate) ==
  IF generate THEN SetField(frontmatter, "embedding", Arr(EmbedderOutput))
  ELSE frontmatter

\* migrateFile once the content has parsed
MigrateParsed(content, frontmatter, body, embeddings, customMapping) ==
  LET needsSchema == NeedsV3Migration(frontmatter)
      needsEmbedding == embeddings /\ EmbeddingWanted(frontmatter)
      result == ApplyV3Migration(frontmatter, customMapping)
  IN  IF ~needsSchema /\ ~needsEmbedding THEN content
      ELSE IF needsSchema /\ result.threw THEN content
      ELSE SerializeFrontmatter(
             Embedded(IF needsSchema THEN result.migrated ELSE frontmatter,
                      needsEmbedding /\ Trim(body) /= ""),
             body)

\* migrateFile: the content of the file after the call (not a dry run)
MigrateFile(content, embeddings, customMapping) ==
  LET parsed == ParseFrontmatter(content)
  IN  IF ~parsed.ok THEN content
      ELSE MigrateParsed(content, parsed.frontmatter, parsed.body, embeddings,
                         customMapping)

(***************************************************************************)
(* Migration runs over a directory of memory files                         *)
(***************************************************************************)
MaxFiles == 2

\* files as found on disk: a v1 and a v2 memory with a body, memories with an
\* empty body and no embedding, one with a vector of the wrong dimensions,
\* one already migrated, and a file without frontmatter
FileTexts ==
  {"---\nid: m1\ncontext_type: bug_fix\nemotional_resonance: joy\nembedding: null\n---\nFixed the parser\n",
   "---\nid: m2\ncontext_type: architecture\nschema_version: 2\nscope: project\ntemporal_class: long_term\nfade_rate: 0.01\ntemporal_relevance: persistent\nembedding: [1,0]\n---\nLayers\n",
   "---\nid: m3\ncontext_type: decision\ncontent: \"he said \\\"done\\\"\"\nschema_version: 2\nembedding: null\n---\n",
   "---\nid: m4\ncontext_type: personal\ntrigger_phrases: [\"a, b\", \"c\"]\nembedding: null\n---\n",
   "---\nid: m5\ncontext_type: constructor\nschema_version: 2\nscope: project\ntemporal_class: medium_term\nfade_rate: 0.03\nembedding: [1,0,-0.5]\n---\nBody\n",
   "---\nid: m6\ncontext_type: debug\nstatus: active\nscope: project\ntemporal_class: medium_term\nfade_rate: 0.03\nschema_version: 3\nembedding: [1,0,-0.5]\n---\n\nBody\n",
   "no frontmatter"}

InitMigration ==
  /\ corpus = <<>>
  /\ NoRetrieval
  /\ StoreClosed /\ NoSessions
  /\ injected = [pair \in Pairs |-> {}]
  /\ NoRecords /\ NoLifecycle
  /\ document = [op |-> "none"]
  /\ migrationLog = [runs |-> 0]
  /\ \E n \in 1..MaxFiles : files \in [1..n -> FileTexts]

\* migrate(options): every file of the directory goes through migrateFile
Migrate(embeddings) ==
  /\ migrationLog.runs < 2
  /\ migrationLog.runs = 1 => embeddings = migrationLog.embeddings
  /\ files' = [i \in DOMAIN files |-> MigrateFile(files[i], embeddings, NoMapping)]
  /\ migrationLog' = [runs |-> migrationLog.runs + 1, embeddings |-> embeddings,
                      afterFirst |-> IF migrationLog.runs = 0 THEN files'
                                     ELSE migrationLog.afterFirst]
  /\ UNCHANGED <<retrievalVars, projectVars, sessionVars, injected, recordVars,
                 document, lifecycleVars>>

NextMigration == \E embeddings \in BOOLEAN : Migrate(embeddings)

SpecMigration == InitMigration /\ [][NextMigration]_vars

\* C12: after two successive runs of the migration with the same options,
\* every file is byte-identical to its content after the first run.
C12_MigrationIdempotent ==
  migrationLog.runs = 2 => files = migrationLog.afterFirst

(***************************************************************************)
(* applyV3Migration on the frontmatter of one memory                       *)
(***************************************************************************)
\* context_type values: canonical, legacy, with a fuzzy keyword, in another
\* case or padded, unknown, empty, and names every object has
ContextTypeInputs ==
  {Str("debug"), Str("bug_fix"), Str("technical_achievement"), Str("general"),
   Str("hotfix-notes"), Str("Architecture "), Str("my_open_question"), Str("zzz"),
   Str("misc"), Str(""), Str("constructor"), Str("__proto__"), Str("toString")}

CustomMappings ==
  {NoMapping,
   [loaded |-> TRUE, entries |-> << <<"zzz", "decision">>, <<"misc", "nonsense">> >>],
   [loaded |-> TRUE, entries |-> << <<"debug", "state">> >>]}

\* a v1 memory as storeMemory inserts it into the database of a project or
\* into the global one, and a v2 memory of a project that has its scope,
\* class and fade rate
V1Fields(projectId) ==
  <<[key |-> "id", value |-> Str("m1")], [key |-> "importance_weight", value |-> Num(70)],
    [key |-> "project_id", value |-> Str(projectId)]>>

V2Fields ==
  V1Fields(CurrentProject)
           \o <<[key |-> "schema_version", value |-> Num(200)],
                [key |-> "scope", value |-> Str("project")],
                [key |-> "temporal_class", value |-> Str("medium_term")],
                [key |-> "fade_rate", value |-> Num(3)],
                [key |-> "temporal_relevance", value |-> Str("session")]>>

MemoryBases == {V1Fields(CurrentProject), V1Fields("global"), V2Fields}

MemoryInputs ==
  MemoryBases
  \cup {base \o <<[key |-> "context_type", value |-> type]>> :
          base \in MemoryBases, type \in ContextTypeInputs \cup {Str("personal")}}

InitApplyV3 ==
  /\ corpus = <<>>
  /\ NoRetrieval
  /\ StoreClosed /\ NoSessions
  /\ injected = [pair \in Pairs |-> {}]
  /\ NoRecords /\ NoLifecycle
  /\ files = <<>>
  /\ migrationLog = [runs |-> 0]
  /\ \E frontmatter \in MemoryInputs, customMapping \in CustomMappings :
       document = [op |-> "frontmatter", frontmatter |-> frontmatter,
                   customMapping |-> customMapping]

\* applyV3Migration(frontmatter)
MigrateFrontmatter ==
  /\ document.op = "frontmatter"
  /\ document' = [op |-> "migrated", frontmatter |-> document.frontmatter,
                  customMapping |-> document.customMapping,
                  result |-> ApplyV3Migration(document.frontmatter,
                                              document.customMapping)]
  /\ UNCHANGED <<retrievalVars, projectVars, sessionVars, injected, recordVars,
                 files, migrationLog, lifecycleVars>>

NextApplyV3 == MigrateFrontmatter

SpecApplyV3 == InitApplyV3 /\ [][NextApplyV3]_vars

\* the keywords of the fuzzy fallback
FuzzyKeywords ==
  {"debug", "bug", "fix", "architect", "design", "pattern", "decision", "choice",
   "personal", "relationship", "preference", "philosoph", "value", "wisdom",
   "workflow", "process", "milestone", "achievement", "complete", "breakthrough",
   "insight", "discover", "unresolved", "todo", "open", "pending", "state",
   "status", "current"}

\* the input context_type is in no table and holds no fuzzy keyword
Unmatched(frontmatter, customMapping) ==
  LET oldType == OrElse(Field(frontmatter, "context_type"), Str("general")).str
      normalized == Trim(ToLowerCase(oldType))
  IN  /\ oldType \notin OwnKeys(customMapping.entries)
      /\ normalized \notin SeqToSet(CANONICAL_CONTEXT_TYPES)
      /\ normalized \notin OwnKeys(CONTEXT_TYPE_MIGRATION_MAP)
      /\ \A keyword \in FuzzyKeywords : ~Includes(normalized, keyword)

\* C14: after applyV3Migration the context_type is one of the 11 canonical
\* types for every input context_type and every custom mapping, and an input
\* that matches neither the built-in table nor a fuzzy keyword becomes
\* technical.
C14_ContextTypeCanonical ==
  (document.op = "migrated" /\ ~document.result.threw) =>
    LET context_type == Field(document.result.migrated, "context_type")
    IN  /\ IsCanonical(context_type)
        /\ Unmatched(document.frontmatter, document.customMapping) =>
             context_type = Str("technical")


\* C15: after a write that fills in the default scope, scope = global
\* implies project_id = 'global' and scope = project implies that project_id
\* is not 'global'.
C15_ScopeMatchesProject ==
  (document.op = "migrated" /\ ~document.result.threw) =>
    LET scope == Field(document.result.migrated, "scope")
        project_id == Field(document.result.migrated, "project_id")
    IN  /\ scope = Str("global") => project_id = Str("global")
        /\ scope = Str("project") => project_id /= Str("global")


(***************************************************************************)
(* Lifecycle management (Memory Management Skill, part_005; spec 4.3).     *)
(* A memory's id is its position in managedMemories, so that a lower id is *)
(* an older memory.                                                        *)
(***************************************************************************)
MaxMemories == 3

\* supersedes, superseded_by or resolved_by not set
NoMemory == 0

Statuses == {"active", "pending", "superseded", "deprecated", "archived"}

\* the valid status transitions
ValidTransitions ==
  {<<"active", "pending">>, <<"active", "superseded">>, <<"active", "deprecated">>,
   <<"active", "archived">>, <<"pending", "active">>, <<"pending", "superseded">>,
   <<"deprecated", "archived">>}

TerminalStatuses == {"superseded", "archived"}

\* a memory as the curator's output is stored: active, no relationships
NewMemory(fade_rate, temporal_class, importance_weight) ==
  [status |-> "active", supersedes |-> NoMemory, superseded_by |-> NoMemory,
   resolved_by |-> NoMemory, related_to |-> {}, sessions_since_surfaced |-> 0,
   fade_rate |-> fade_rate, temporal_class |-> temporal_class,
   expires_after_sessions |-> 1, importance_weight |-> importance_weight,
   retrieval_weight |-> importance_weight]

MemoryIds == DOMAIN managedMemories

\* a variant of Rejected that rejects no transition
RejectedNever(from, to) == FALSE

\* LifecycleError invalid_transition: the change is not a valid transition
Rejected(from, to) == <<from, to>> \notin ValidTransitions

\* a new memory enters the corpus
CurateMemory ==
  /\ Len(managedMemories) < MaxMemories
  /\ managedMemories' = Append(managedMemories, NewMemory(3, "medium_term", 70))
  /\ lastReturn' = [op |-> "curate", id |-> Len(managedMemories) + 1, rejected |-> FALSE]
  /\ UNCHANGED <<retrievalVars, projectVars, sessions, clock, sessionLog, injected,
                 recordVars, migrationVars, managerPass>>

\* the manager changes the status of a memory; an invalid transition is
\* rejected and the memory is skipped
SetStatus(id, to) ==
  /\ id \in MemoryIds
  /\ LET rejected == Rejected(managedMemories[id].status, to)
     IN  /\ managedMemories' =
               IF rejected THEN managedMemories
               ELSE [managedMemories EXCEPT ![id].status = to]
         /\ lastReturn' = [op |-> "setStatus", id |-> id, rejected |-> rejected]
  /\ UNCHANGED <<retrievalVars, projectVars, sessions, clock, sessionLog, injected,
                 recordVars, migrationVars, managerPass>>

\* a variant of Older that lets any memory supersede any other
OlderOrNewer(b, a) == b /= a

\* b existed before a, the new memory
Older(b, a) == b < a

\* memory a supersedes memory b
Supersede(a, b) ==
  /\ a \in MemoryIds /\ b \in MemoryIds
  /\ Older(b, a)
  /\ LET rejected == Rejected(managedMemories[b].status, "superseded")
     IN  /\ managedMemories' =
               IF rejected THEN managedMemories
               ELSE [managedMemories EXCEPT ![b].status = "superseded",
                                            ![b].superseded_by = a,
                                            ![a].supersedes = b]
         /\ lastReturn' = [op |-> "supersede", id |-> b, rejected |-> rejected]
  /\ UNCHANGED <<retrievalVars, projectVars, sessions, clock, sessionLog, injected,
                 recordVars, migrationVars, managerPass>>

\* the solved memory a resolves memory b
Resolve(a, b) ==
  /\ a \in MemoryIds /\ b \in MemoryIds
  /\ Older(b, a)
  /\ LET rejected == Rejected(managedMemories[b].status, "superseded")
     IN  /\ managedMemories' =
               IF rejected THEN managedMemories
               ELSE [managedMemories EXCEPT ![b].status = "superseded",
                                            ![b].resolved_by = a]
         /\ lastReturn' = [op |-> "resolve", id |-> b, rejected |-> rejected]
  /\ UNCHANGED <<retrievalVars, projectVars, sessions, clock, sessionLog, injected,
                 recordVars, migrationVars, managerPass>>

InitLifecycle ==
  /\ corpus = <<>>
  /\ NoRetrieval
  /\ StoreClosed /\ NoSessions
  /\ injected = [pair \in Pairs |-> {}]
  /\ NoRecords /\ NoMigration /\ NoLifecycle

NextSupersession ==
  \/ CurateMemory
  \/ \E id \in 1..MaxMemories, to \in Statuses : SetStatus(id, to)
  \/ \E a, b \in 1..MaxMemories : Supersede(a, b)
  \/ \E a, b \in 1..MaxMemories : Resolve(a, b)

SpecSupersession == InitLifecycle /\ [][NextSupersession]_vars

C17_SupersessionInverse ==
  \A a, b \in MemoryIds :
     (managedMemories[a].superseded_by = b) = (managedMemories[b].supersedes = a)

\* the memory reached from id by n steps along superseded_by
RECURSIVE FollowSupersededBy(_, _)
FollowSupersededBy(id, n) ==
  IF n = 0 \/ id = NoMemory THEN id
  ELSE FollowSupersededBy(managedMemories[id].superseded_by, n - 1)

BeginPass ==
  /\ managerPass = "idle"
  /\ managedMemories /= <<>>
  /\ managerPass' = "running"
  /\ lastReturn' = [op |-> "beginPass", id |-> NoMemory, rejected |-> FALSE]
  /\ UNCHANGED <<retrievalVars, projectVars, sessions, clock, sessionLog, injected,
                 recordVars, migrationVars, managedMemories>>

\* Phase 1 step 3: an edit of memory a's file adds b to its related_to
AddRelatedTo(a, b) ==
  /\ managerPass = "running"
  /\ a \in MemoryIds /\ b \in MemoryIds /\ a /= b
  /\ managedMemories' = [managedMemories EXCEPT ![a].related_to = @ \cup {b}]
  /\ lastReturn' = [op |-> "addRelatedTo", id |-> a, rejected |-> FALSE]
  /\ UNCHANGED <<retrievalVars, projectVars, sessions, clock, sessionLog, injected,
                 recordVars, migrationVars, managerPass>>

\* a variant of Bidirectional that leaves the arrays as they were edited
AsEdited(memories) == memories

\* Phase 3 orphan resolution: every related_to link is made to point both ways
Bidirectional(memories) ==
  [a \in DOMAIN memories |->
     [memories[a] EXCEPT !.related_to =
        @ \cup {b \in DOMAIN memories : a \in memories[b].related_to}]]

\* the pass ends with the cleanup phase
EndPass ==
  /\ managerPass = "running"
  /\ managedMemories' = Bidirectional(managedMemories)
  /\ managerPass' = "idle"
  /\ lastReturn' = [op |-> "endPass", id |-> NoMemory, rejected |-> FALSE]
  /\ UNCHANGED <<retrievalVars, projectVars, sessions, clock, sessionLog, injected,
                 recordVars, migrationVars>>

NextRelations ==
  \/ CurateMemory
  \/ BeginPass
  \/ \E a, b \in 1..MaxMemories : AddRelatedTo(a, b)
  \/ EndPass

SpecRelations == InitLifecycle /\ [][NextRelations]_vars

MaxSessions == 2

\* the floor of retrieval_weight, in hundredths
MIN_RETRIEVAL_WEIGHT == 10

\* memories that do not fade, that fade, and that expire
DecayShapes ==
  {NewMemory(0, "eternal", 90), NewMemory(3, "medium_term", 70),
   NewMemory(10, "ephemeral", 30)}

InitDecay ==
  /\ corpus = <<>>
  /\ NoRetrieval
  /\ StoreClosed /\ NoSessions
  /\ injected = [pair \in Pairs |-> {}]
  /\ NoRecords /\ NoMigration
  /\ managerPass = "idle"
  /\ \E n \in 1..MaxMemories : managedMemories \in [1..n -> DecayShapes]

\* a variant of Decayed that leaves the memory as it was
NotDecayed(memory) == memory

\* the decay of one memory at session start
Decayed(memory) ==
  IF memory.fade_rate > 0
  THEN LET count == memory.sessions_since_surfaced + 1
           weight == IF memory.retrieval_weight - memory.fade_rate > MIN_RETRIEVAL_WEIGHT
                     THEN memory.retrieval_weight - memory.fade_rate
                     ELSE MIN_RETRIEVAL_WEIGHT
           expired == /\ memory.temporal_class = "ephemeral"
                      /\ count > memory.expires_after_sessions
                      /\ ~Rejected(memory.status, "archived")
       IN  [memory EXCEPT !.sessions_since_surfaced = count,
                          !.retrieval_weight = weight,
                          !.status = IF expired THEN "archived" ELSE @]
  ELSE memory

\* session start, before retrieval
ApplyDecay ==
  /\ \A id \in MemoryIds : managedMemories[id].sessions_since_surfaced < MaxSessions
  /\ managedMemories' = [id \in MemoryIds |-> Decayed(managedMemories[id])]
  /\ lastReturn' = [op |-> "decay", id |-> NoMemory, rejected |-> FALSE]
  /\ UNCHANGED <<retrievalVars, projectVars, sessions, clock, sessionLog, injected,
                 recordVars, migrationVars, managerPass>>

\* the memory is retrieved and surfaced
Surface(id) ==
  /\ id \in MemoryIds
  /\ managedMemories' = [managedMemories EXCEPT
                           ![id].sessions_since_surfaced = 0,
                           ![id].retrieval_weight = managedMemories[id].importance_weight]
  /\ lastReturn' = [op |-> "surface", id |-> id, rejected |-> FALSE]
  /\ UNCHANGED <<retrievalVars, projectVars, sessions, clock, sessionLog, injected,
                 recordVars, migrationVars, managerPass>>

NextDecay ==
  \/ ApplyDecay
  \/ \E id \in 1..MaxMemories : Surface(id)

SpecDecay == InitDecay /\ [][NextDecay]_vars

\* C20: sessions_since_surfaced never decreases unless the memory is
\* surfaced; a decay step raises it by 1 when fade_rate > 0, and surfacing
\* resets it to 0.
C20_DecayMonotonic ==
  [][\A id \in MemoryIds :
       LET before == managedMemories[id].sessions_since_surfaced
           after == managedMemories'[id].sessions_since_surfaced
       IN  IF lastReturn'.op = "surface" /\ lastReturn'.id = id THEN after = 0
           ELSE /\ after >= before
                /\ (lastReturn'.op = "decay" /\ managedMemories[id].fade_rate > 0)
                     => after = before + 1
    ]_vars

\* a memory that fades was surfaced while another has gone two sessions
\* without surfacing
C20_Witness ==
  /\ lastReturn.op = "surface"
  /\ managedMemories[lastReturn.id].fade_rate > 0
  /\ managedMemories[lastReturn.id].retrieval_weight =
       managedMemories[lastReturn.id].importance_weight
  /\ \E other \in MemoryIds : managedMemories[other].sessions_since_surfaced >= 2


(***************************************************************************)
(* Retrieval: the rankings                                                 *)
(***************************************************************************)
RankingQueries ==
  { [message |-> m.message, embedding |-> m.embedding, project_id |-> CurrentProject,
     maxMemories |-> mt, maxGlobalMemories |-> mg] :
      m \in RankingMessages, mt \in 0..MaxLimit, mg \in 0..MaxLimit }

\* a corpus of memories that differ in what the rankings read; none is
\* related to another, so the backfill adds nothing
InitRanking ==
  /\ \E n \in 0..MaxCorpus :
       \E shapes \in [1..n -> RankingShapes] :
         corpus = MakeCorpus(shapes, [i \in 1..n |-> FALSE])
  /\ query \in RankingQueries
  /\ retrieved = NotRetrieved
  /\ StoreClosed /\ NoSessions
  /\ injected = [pair \in Pairs |-> {}]
  /\ NoRecords /\ NoMigration /\ NoLifecycle

NextRanking == Retrieve

SpecRanking == InitRanking /\ [][NextRanking]_vars

\* the ActivatedMemory of a memory for the query
ActivatedOf(memory) ==
  Activate(memory, ToLowerCaseMemo(query.message),
           ExtractSignificantWordsMemo(query.message), query.embedding)

\* the memory passes the pre-filter and the relevance gate for the query
PassesGate(memory) ==
  /\ PassesPreFilterMemo(memory, query.project_id, ToLowerCaseMemo(query.message))
  /\ ~BelowGate(ActivatedOf(memory).count)

\* the priority table of the global selection as published, 0 for a type it
\* does not list
PublishedTypePriority(t) ==
  CASE t = "technical"    -> 1
    [] t = "preference"   -> 2
    [] t = "architecture" -> 3
    [] t = "workflow"     -> 4
    [] t = "decision"     -> 5
    [] t = "breakthrough" -> 6
    [] t = "philosophy"   -> 7
    [] t = "personal"     -> 8
    [] OTHER              -> 0

\* a ranks before b: type priority ascending, then signal count descending,
\* then importance descending
PublishedGlobalBefore(a, b) ==
  LET aPriority == PublishedTypePriority(a.memory.context_type)
      bPriority == PublishedTypePriority(b.memory.context_type)
  IN  /\ aPriority /= 0 /\ bPriority /= 0
      /\ IF aPriority /= bPriority THEN aPriority < bPriority
         ELSE IF a.count /= b.count THEN a.count > b.count
         ELSE a.importanceScore > b.importanceScore

\* C21: of two gate-passing global memories, the one that ranks later under
\* (type priority with technical 1, preference 2, architecture 3, workflow 4,
\* decision 5, breakthrough 6, philosophy 7, personal 8; then signal count;
\* then importance) is in the output only if the earlier one is.
C21_GlobalPriorityOrder ==
  retrieved.done =>
    \A i, j \in 1..Len(corpus) :
      ( /\ IsGlobal(corpus[i]) /\ IsGlobal(corpus[j])
        /\ PassesGate(corpus[i]) /\ PassesGate(corpus[j])
        /\ PublishedGlobalBefore(ActivatedOf(corpus[i]), ActivatedOf(corpus[j]))
        /\ corpus[j].id \in SelectedIds(retrieved.out) )
      => corpus[i].id \in SelectedIds(retrieved.out)

\* the keyword table of the context-type bonus as published
PublishedContextKeywords(contextType) ==
  CASE contextType = "debug"        -> {"debug", "bug", "error", "fix", "issue", "problem", "broken"}
    [] contextType = "decision"     -> {"decide", "decision", "choose", "choice", "option", "should"}
    [] contextType = "architecture" -> {"architect", "design", "structure", "pattern", "how"}
    [] contextType = "breakthrough" -> {"insight", "realize", "understand", "discover", "why"}
    [] contextType = "technical"    -> {"implement", "code", "function", "method", "api"}
    [] contextType = "workflow"     -> {"process", "workflow", "step", "flow", "pipeline"}
    [] contextType = "philosophy"   -> {"philosophy", "principle", "belief", "approach", "think"}
    [] OTHER                        -> {}

KeywordTypes ==
  {"debug", "decision", "architecture", "breakthrough", "technical", "workflow",
   "philosophy"}

\* what the score of a returned memory owes to its context_type
ContextTypeBonus(a) ==
  a.importanceScore
    - CalculateImportanceScoreMemo([a.memory EXCEPT !.context_type = UNDEF], a.count,
                                   ToLowerCaseMemo(query.message),
                                   ExtractSignificantWordsMemo(query.message))

\* C23: the score of a returned memory whose context_type is one of debug,
\* decision, architecture, breakthrough, technical, workflow and philosophy
\* holds the context-type bonus of 0.10, once, exactly when the message
\* contains a keyword listed for that type.
C23_ContextTypeBonus ==
  retrieved.done =>
    \A i \in 1..Len(retrieved.out) :
      LET a == retrieved.out[i]
          listed == PublishedContextKeywords(a.memory.context_type)
      IN  a.memory.context_type \in KeywordTypes =>
            ContextTypeBonus(a) =
              (IF \E kw \in listed : Includes(ToLowerCaseMemo(query.message), kw)
               THEN 10 ELSE 0)

\* the fields of a memory that the listed terms of the score read
ScoreInputs(memory) ==
  [memory EXCEPT !.id = "", !.related_to = <<>>, !.emotional_resonance = UNDEF]

\* C24: two returned memories that agree on every input of the listed terms
\* of the importance score, and differ at most in another field such as
\* emotional_resonance, have the same importance score.
C24_ScoreOnlyListedTerms ==
  retrieved.done =>
    \A i, j \in 1..Len(retrieved.out) :
      ( /\ ScoreInputs(retrieved.out[i].memory) = ScoreInputs(retrieved.out[j].memory)
        /\ retrieved.out[i].count = retrieved.out[j].count )
      => retrieved.out[i].importanceScore = retrieved.out[j].importanceScore


\* a ranks before b: action_required first, then signal count descending,
\* then importance descending
PublishedProjectBefore(a, b) ==
  IF a.memory.action_required /= b.memory.action_required
  THEN a.memory.action_required
  ELSE IF a.count /= b.count THEN a.count > b.count
  ELSE a.importanceScore > b.importanceScore

QueryPhases ==
  LET activated == ActivatedMemories(corpus, query.message, query.embedding,
                                     query.project_id)
  IN  [activated     |-> activated,
       afterProjects |-> AfterProjects(activated, query.maxMemories,
                                       query.maxGlobalMemories),
       firstGlobals  |-> SelectedIds(TakeFirst(SortedBy(KeepGlobal(activated, TRUE),
                                                        "global"),
                                               query.maxGlobalMemories))]

\* C27: when slots remain after the project loop every gate-passing project
\* memory is selected already, and every memory the related backfill adds
\* is a global memory that was not among the first max_global globals.
C27_BackfillAddsOnlyGlobals ==
  retrieved.done =>
    LET phases == QueryPhases
    IN  /\ Len(phases.afterProjects) < query.maxMemories =>
             \A i \in 1..Len(phases.activated) :
               ~phases.activated[i].isGlobal =>
                 phases.activated[i].memory.id \in SelectedIds(phases.afterProjects)
        /\ \A k \in (Len(phases.afterProjects) + 1)..Len(retrieved.out) :
             /\ IsGlobal(retrieved.out[k].memory)
             /\ retrieved.out[k].memory.id \notin phases.firstGlobals

\* a project memory is selected, slots remain, and the backfill adds a
\* global memory
C27_Witness ==
  /\ retrieved.done
  /\ LET phases == QueryPhases
     IN  /\ \E i \in 1..Len(phases.afterProjects) : ~phases.afterProjects[i].isGlobal
         /\ Len(phases.afterProjects) < query.maxMemories
         /\ Len(retrieved.out) > Len(phases.afterProjects)


(***************************************************************************)
(* applyV3Migration with a custom mapping                                  *)
(***************************************************************************)
\* the context_type the migration reads from the document
DocumentContextType ==
  OrElse(Field(document.frontmatter, "context_type"), Str("general"))

\* the values the loaded custom mapping gives for the document's
\* context_type
CustomValues ==
  IF document.customMapping.loaded /\ DocumentContextType.t = "string"
  THEN {document.customMapping.entries[k][2] :
          k \in {n \in 1..Len(document.customMapping.entries) :
                   document.customMapping.entries[n][1] = DocumentContextType.str}}
  ELSE {}

\* the migration returned, and with that context_type
MigratedTo(value) ==
  /\ ~document.result.threw
  /\ Field(document.result.migrated, "context_type") = Str(value)

\* C25 as stated: with a custom mapping loaded, a context_type that is a key
\* of the mapping migrates to the mapping's value for it.
C25_CustomMappingOverlays ==
  document.op = "migrated" => \A value \in CustomValues : MigratedTo(value)

\* C25 as amended: with a custom mapping loaded, a context_type that is a key
\* of the mapping migrates to the mapping's value for it when that value is
\* one of the 11 canonical types.
C25_CanonicalCustomMappingOverlays ==
  document.op = "migrated" =>
    \A value \in CustomValues :
      value \in SeqToSet(CANONICAL_CONTEXT_TYPES) => MigratedTo(value)

\* a memory of type debug, which the built-in migration keeps, was migrated
\* to the custom mapping's value state
C25_Witness ==
  /\ document.op = "migrated"
  /\ DocumentContextType = Str("debug")
  /\ CustomValues = {"state"}
  /\ MigratedTo("state")

\* ---------------------------------------------------------------------------
\* parseSessionFileWithSegments: conversations batched into segments
\* ---------------------------------------------------------------------------

MaxConversations == 3
MaxTokens == 3
MaxTokenLimit == 2

\* what parseSessionConversations returned: each conversation with the sum
\* of its messages' estimated tokens
ConversationInputs ==
  UNION {{[i \in 1..n |-> [id |-> i, estimatedTokens |-> tokens[i]]] :
            tokens \in [1..n -> 0..MaxTokens]} : n \in 0..MaxConversations}

TokenLimits == 0..MaxTokenLimit

\* segments, currentConversations, currentTokens and segmentIndex before the
\* loop
NoBatch ==
  [segments |-> <<>>, currentConversations |-> <<>>, currentTokens |-> 0,
   segmentIndex |-> 0]

FlushSegmentSameIndex(batch) ==
  IF Len(batch.currentConversations) = 0 THEN batch
  ELSE [segments |->
          Append(batch.segments,
                 [segmentIndex |-> batch.segmentIndex, totalSegments |-> 0,
                  conversations |-> batch.currentConversations,
                  estimatedTokens |-> batch.currentTokens]),
        currentConversations |-> <<>>, currentTokens |-> 0,
        segmentIndex |-> batch.segmentIndex]

\* flushSegment()
FlushSegment(batch) ==
  IF Len(batch.currentConversations) = 0 THEN batch
  ELSE [segments |->
          Append(batch.segments,
                 [segmentIndex |-> batch.segmentIndex, totalSegments |-> 0,
                  conversations |-> batch.currentConversations,
                  estimatedTokens |-> batch.currentTokens]),
        currentConversations |-> <<>>, currentTokens |-> 0,
        segmentIndex |-> batch.segmentIndex + 1]

PushConversationUncounted(batch, conv) ==
  [batch EXCEPT !.currentConversations = Append(@, conv)]

\* currentConversations.push(conv); currentTokens += conv.estimatedTokens
PushConversation(batch, conv) ==
  [batch EXCEPT !.currentConversations = Append(@, conv),
                !.currentTokens = @ + conv.estimatedTokens]

\* an oversized conversation becomes its own segment
OwnSegment(batch, conv) ==
  FlushSegment([FlushSegment(batch) EXCEPT !.currentConversations = <<conv>>,
                                           !.currentTokens = conv.estimatedTokens])

\* one pass of the loop over the conversations
BatchConversation(batch, conv, maxTokensPerSegment) ==
  IF conv.estimatedTokens > maxTokensPerSegment
  THEN OwnSegment(batch, conv)
  ELSE IF /\ batch.currentTokens + conv.estimatedTokens > maxTokensPerSegment
          /\ Len(batch.currentConversations) > 0
       THEN PushConversation(FlushSegment(batch), conv)
       ELSE PushConversation(batch, conv)

RECURSIVE BatchConversations(_, _, _)
BatchConversations(conversations, n, maxTokensPerSegment) ==
  IF n = 0 THEN NoBatch
  ELSE BatchConversation(BatchConversations(conversations, n - 1,
                                            maxTokensPerSegment),
                         conversations[n], maxTokensPerSegment)

\* segment.totalSegments = totalSegments, for every segment
WithTotalSegments(segments) ==
  [i \in 1..Len(segments) |-> [segments[i] EXCEPT !.totalSegments = Len(segments)]]

ParseSessionFileWithSegments(conversations, maxTokensPerSegment) ==
  IF Len(conversations) = 0 THEN <<>>
  ELSE WithTotalSegments(
         FlushSegment(BatchConversations(conversations, Len(conversations),
                                         maxTokensPerSegment)).segments)

InitSegments ==
  /\ corpus = <<>>
  /\ NoRetrieval
  /\ StoreClosed /\ NoSessions
  /\ injected = [pair \in Pairs |-> {}]
  /\ NoRecords /\ NoLifecycle
  /\ files = <<>>
  /\ migrationLog = [runs |-> 0]
  /\ \E conversations \in ConversationInputs, maxTokensPerSegment \in TokenLimits :
       document = [op |-> "conversations", conversations |-> conversations,
                   maxTokensPerSegment |-> maxTokensPerSegment]

\* parseSessionFileWithSegments(filepath, maxTokensPerSegment)
ParseSegments ==
  /\ document.op = "conversations"
  /\ document' = [op |-> "segmented", conversations |-> document.conversations,
                  maxTokensPerSegment |-> document.maxTokensPerSegment,
                  segments |-> ParseSessionFileWithSegments(
                                 document.conversations,
                                 document.maxTokensPerSegment)]
  /\ UNCHANGED <<retrievalVars, projectVars, sessionVars, injected, recordVars,
                 files, migrationLog, lifecycleVars>>

NextSegments == ParseSegments

SpecSegments == InitSegments /\ [][NextSegments]_vars

\* the estimated tokens of a segment's conversations
TokensOf(conversations) ==
  SumSeq([i \in 1..Len(conversations) |-> conversations[i].estimatedTokens])

\* a segment of exactly one conversation that alone exceeds the limit
Oversized(segment) ==
  /\ Len(segment.conversations) = 1
  /\ segment.conversations[1].estimatedTokens > document.maxTokensPerSegment

\* C26: every segment's estimatedTokens is the sum of its conversations'
\* estimatedTokens, and is at most maxTokensPerSegment unless the segment is
\* exactly one conversation that alone exceeds the limit.
C26_SegmentsRespectLimit ==
  document.op = "segmented" =>
    \A i \in 1..Len(document.segments) :
      /\ document.segments[i].estimatedTokens
           = TokensOf(document.segments[i].conversations)
      /\ \/ document.segments[i].estimatedTokens <= document.maxTokensPerSegment
         \/ Oversized(document.segments[i])

\* a batch of two conversations that fills the limit was flushed, and the
\* oversized conversation after it was made its own segment
C26_Witness ==
  /\ document.op = "segmented"
  /\ Len(document.segments) = 2
  /\ Len(document.segments[1].conversations) = 2
  /\ document.segments[1].estimatedTokens = document.maxTokensPerSegment
  /\ document.segments[1].conversations[1].estimatedTokens > 0
  /\ Oversized(document.segments[2])

RECURSIVE ConcatConversations(_, _)
ConcatConversations(segments, n) ==
  IF n = 0 THEN <<>>
  ELSE ConcatConversations(segments, n - 1) \o segments[n].conversations

\* C28: the segments' conversations, concatenated by ascending segmentIndex,
\* are the conversation sequence; no segment is empty; the segmentIndex
\* values are 0..n-1 in order; every totalSegments is n.
C28_SegmentsPartitionInOrder ==
  document.op = "segmented" =>
    /\ ConcatConversations(document.segments, Len(document.segments))
         = document.conversations
    /\ \A i \in 1..Len(document.segments) :
         /\ Len(document.segments[i].conversations) > 0
         /\ document.segments[i].segmentIndex = i - 1
         /\ document.segments[i].totalSegments = Len(document.segments)

\* three conversations were split into two segments, one of two conversations
C28_Witness ==
  /\ document.op = "segmented"
  /\ Len(document.conversations) = 3
  /\ Len(document.segments) = 2
  /\ document.segments[2].segmentIndex = 1
  /\ \E i \in 1..2 : Len(document.segments[i].conversations) = 2

\* ---------------------------------------------------------------------------
\* incrementMessageCount on a session that was never created
\* ---------------------------------------------------------------------------

\* C29: incrementMessageCount for a session id never created in the project
\* throws, and leaves every sessions collection as it was: no record is
\* created and no message_count or last_active is changed.
C29_IncrementUnknownSessionThrows ==
  [][ \A pair \in Pairs :
        ( /\ lastReturn'.op = "incrementMessageCount"
          /\ <<lastReturn'.projectId, lastReturn'.sessionId>> = pair
          /\ sessionLog[pair].gets = 0 ) =>
          /\ lastReturn'.threw
          /\ sessions' = sessions ]_vars

\* incrementMessageCount threw for a session never created in a project
\* that holds another session with messages counted, and the same session id
\* exists in another project
C29_Witness ==
  /\ lastReturn.op = "incrementMessageCount"
  /\ lastReturn.threw
  /\ sessionLog[<<lastReturn.projectId, lastReturn.sessionId>>].gets = 0
  /\ \E sessionId \in SessionIds :
       sessions[<<lastReturn.projectId, sessionId>>].message_count > 0
  /\ \E projectId \in ProjectIds :
       sessions[<<projectId, lastReturn.sessionId>>].present

\* ---------------------------------------------------------------------------
\* applyV2Defaults and the type defaults
\* ---------------------------------------------------------------------------

\* fade rates in hundredths
V2_DEFAULTS ==
  [typeDefaults |->
     [personal        |-> [scope |-> "global",  temporal_class |-> "eternal",     fade_rate |-> 0],
      philosophy      |-> [scope |-> "global",  temporal_class |-> "eternal",     fade_rate |-> 0],
      preference      |-> [scope |-> "global",  temporal_class |-> "long_term",   fade_rate |-> 1],
      breakthrough    |-> [scope |-> "project", temporal_class |-> "eternal",     fade_rate |-> 0],
      decision        |-> [scope |-> "project", temporal_class |-> "long_term",   fade_rate |-> 0],
      milestone       |-> [scope |-> "project", temporal_class |-> "eternal",     fade_rate |-> 0],
      technical       |-> [scope |-> "project", temporal_class |-> "medium_term", fade_rate |-> 3],
      architectural   |-> [scope |-> "project", temporal_class |-> "long_term",   fade_rate |-> 1],
      debugging       |-> [scope |-> "project", temporal_class |-> "medium_term", fade_rate |-> 3],
      unresolved      |-> [scope |-> "project", temporal_class |-> "medium_term", fade_rate |-> 5],
      todo            |-> [scope |-> "project", temporal_class |-> "short_term",  fade_rate |-> 10],
      technical_state |-> [scope |-> "project", temporal_class |-> "short_term",  fade_rate |-> 10],
      workflow        |-> [scope |-> "project", temporal_class |-> "long_term",   fade_rate |-> 2],
      project_context |-> [scope |-> "project", temporal_class |-> "medium_term", fade_rate |-> 3]],
   fallback |->
     [status |-> "active", scope |-> "project", temporal_class |-> "medium_term",
      fade_rate |-> 3, sessions_since_surfaced |-> 0,
      awaiting_implementation |-> FALSE, awaiting_decision |-> FALSE,
      exclude_from_retrieval |-> FALSE]]

\* V2_DEFAULTS.typeDefaults[contextType] ?? V2_DEFAULTS.typeDefaults.technical
V2TypeDefaults(contextType) ==
  IF contextType.t = "string" /\ contextType.str \in DOMAIN V2_DEFAULTS.typeDefaults
  THEN V2_DEFAULTS.typeDefaults[contextType.str]
  ELSE V2_DEFAULTS.typeDefaults.technical

\* status, scope, temporal_class and fade_rate of applyV2Defaults
V2TypeDefaulted(memory, typeDefaults) ==
  Defaulted(Defaulted(Defaulted(Defaulted(memory,
    "status", Str(V2_DEFAULTS.fallback.status)),
    "scope", Str(typeDefaults.scope)),
    "temporal_class", Str(typeDefaults.temporal_class)),
    "fade_rate", Num(typeDefaults.fade_rate))

\* sessions_since_surfaced and the three flags of applyV2Defaults
V2FlagsDefaulted(memory) ==
  Defaulted(Defaulted(Defaulted(Defaulted(memory,
    "sessions_since_surfaced", Num(V2_DEFAULTS.fallback.sessions_since_surfaced)),
    "awaiting_implementation", Bool(V2_DEFAULTS.fallback.awaiting_implementation)),
    "awaiting_decision", Bool(V2_DEFAULTS.fallback.awaiting_decision)),
    "exclude_from_retrieval", Bool(V2_DEFAULTS.fallback.exclude_from_retrieval))

\* retrieval_weight: memory.retrieval_weight ?? memory.importance_weight ?? 0.5
V2WeightDefaulted(memory) ==
  Defaulted(memory, "retrieval_weight",
            OrElse(Field(memory, "importance_weight"), Num(50)))

\* the arrays and the schema version of applyV2Defaults
V2ListsDefaulted(memory) ==
  Defaulted(Defaulted(Defaulted(Defaulted(Defaulted(Defaulted(memory,
    "related_to", Arr(<<>>)), "resolves", Arr(<<>>)), "child_ids", Arr(<<>>)),
    "blocks", Arr(<<>>)), "related_files", Arr(<<>>)),
    "schema_version", Num(200))

ApplyV2Defaults(memory) ==
  V2ListsDefaulted(V2WeightDefaulted(V2FlagsDefaulted(
    V2TypeDefaulted(memory,
      V2TypeDefaults(OrElse(Field(memory, "context_type"), Str("general")))))))

\* the context_types of the memories handed to applyV2Defaults: the canonical
\* ones, legacy ones and none
V2ContextTypes ==
  {<<[key |-> "context_type", value |-> Str(type)]>> :
     type \in SeqToSet(CANONICAL_CONTEXT_TYPES)
                \cup {"architectural", "debugging", "preference", "misc"}}
  \cup {<<>>}

\* scope, temporal_class and fade_rate as a curator may have set them
V2PresetFields ==
  {<<[key |-> "scope", value |-> Str("global")]>>, <<>>}
  \X {<<[key |-> "temporal_class", value |-> Str("ephemeral")]>>, <<>>}
  \X {<<[key |-> "fade_rate", value |-> Num(20)]>>, <<>>}

V2MemoryInputs ==
  {base \o type \o preset[1] \o preset[2] \o preset[3] :
     base \in {V1Fields(CurrentProject), V1Fields("global")},
     type \in V2ContextTypes, preset \in V2PresetFields}

InitV2Defaults ==
  /\ corpus = <<>>
  /\ NoRetrieval
  /\ StoreClosed /\ NoSessions
  /\ injected = [pair \in Pairs |-> {}]
  /\ NoRecords /\ NoLifecycle
  /\ files = <<>>
  /\ migrationLog = [runs |-> 0]
  /\ \E memory \in V2MemoryInputs : document = [op |-> "memory", memory |-> memory]

\* applyV2Defaults(memory)
DefaultMemory ==
  /\ document.op = "memory"
  /\ document' = [op |-> "defaulted", memory |-> document.memory,
                  result |-> ApplyV2Defaults(document.memory)]
  /\ UNCHANGED <<retrievalVars, projectVars, sessionVars, injected, recordVars,
                 files, migrationLog, lifecycleVars>>

NextV2Defaults == DefaultMemory

SpecV2Defaults == InitV2Defaults /\ [][NextV2Defaults]_vars

\* the three fields that take a type default
TypeDefaultFields == {"scope", "temporal_class", "fade_rate"}

\* C30: a memory of a canonical context_type that omits scope, temporal_class
\* and fade_rate is given the same three values by applyV2Defaults as by
\* applyV3Migration, which takes them from V3_TYPE_DEFAULTS.
C30_OneDefaultsTable ==
  ( /\ document.op = "defaulted"
    /\ IsCanonical(Field(document.memory, "context_type"))
    /\ \A key \in TypeDefaultFields : Missing(document.memory, key) ) =>
    /\ ~ApplyV3Migration(document.memory, NoMapping).threw
    /\ \A key \in TypeDefaultFields :
         Field(document.result, key)
           = Field(ApplyV3Migration(document.memory, NoMapping).migrated, key)

=============================================================================
